---------------------------- MODULE Spec2Model ----------------------------
(***************************************************************************)
(* Validation -> healing -> simulation core of the Ankaios dashboard.      *)
(*                                                                         *)
(* Every operation of the core is a synchronous call on an in-memory       *)
(* document, so each specification below draws the call's arguments in its *)
(* initial state and has one action per entry point that computes the      *)
(* returned value the way the Python code computes it.                     *)
(***************************************************************************)
EXTENDS Integers, Sequences, FiniteSets, TLC

VARIABLES
    workloads,   \* the workloads mapping passed to the simulator, in key order
    capacity,    \* cluster_capacity argument of simulate_deployment
    config_yaml,        \* the document text passed to the validators
    current_workloads,  \* the currently deployed workloads the validators are built with
    auto_heal,   \* auto_heal argument of validate_and_heal
    all_errors,  \* the issues handed to auto_fix
    history,     \* files of the snapshot history directory
    now,         \* time.time() in milliseconds
    previous,    \* the value the call before the last one returned, or what
                 \* the last call of save_snapshot started from
    pc,          \* "start" before the call, then the name of the call that returned
    result       \* the value the call returned

vars == <<workloads, capacity, config_yaml, current_workloads, auto_heal, all_errors,
          history, now, previous, pc, result>>

\* What a call leaves alone: its arguments and the previous return value.
args == <<workloads, capacity, config_yaml, current_workloads, auto_heal, all_errors>>

---------------------------------------------------------------------------
(* Bounds of the explored inputs.                                          *)

\* Total number of dependency entries (depends_on items plus dependencies
\* keys) in a workloads map handed to topo_sort.
MaxEdges == 3

\* Same, for the maps handed to simulate_deployment.
MaxSimEdges == 2

\* Number of dependencies keys in a document handed to the dependency
\* validator.
MaxDepEdges == 3

\* Number of departures from a valid document (a missing or wrong field, a
\* dependency, a malformed node) in a document handed to a validation suite.
MaxMods == 2

\* Keys a workloads mapping may have, in insertion order: a map of n
\* workloads has the first n of them (any other insertion order is this one
\* up to renaming, since the dependency lists range over every name).
WorkloadNames == <<"a", "b", "c">>

\* A name that is never a workload key.
MissingNames == {"x"}

\* Workload names that break the naming rules of the schema validator.
BadNames == {"", "my app", "App"}

\* Host ports a runtimeConfig may declare.
Ports == {8080, 8081}

AllNames == {WorkloadNames[i] : i \in 1..Len(WorkloadNames)} \cup MissingNames

\* resources.cpu / resources.memory demands a workload may declare.
ResourceProfiles ==
    { [cpu |-> 0, memory |-> 0], [cpu |-> 1, memory |-> 1], [cpu |-> 2, memory |-> 0] }

\* cluster_capacity arguments.
Capacities == { [cpu |-> 1, memory |-> 2], [cpu |-> 3, memory |-> 1] }

NoResources == [cpu |-> 0, memory |-> 0]
DefaultCapacity == [cpu |-> 1000000, memory |-> 1000000000]

---------------------------------------------------------------------------
(* Generic helpers.                                                        *)

Range(s) == {s[i] : i \in 1..Len(s)}

IndexOf(s, x) == CHOOSE i \in 1..Len(s) : s[i] = x

Reverse(s) == [i \in 1..Len(s) |-> s[Len(s) + 1 - i]]

\* The numbers of S in ascending order.
RECURSIVE SortedSeq(_)
SortedSeq(S) ==
    IF S = {} THEN <<>>
    ELSE LET least == CHOOSE x \in S : \A y \in S : x <= y
         IN <<least>> \o SortedSeq(S \ {least})

\* s without its i-th item.
RemoveAt(s, i) == SubSeq(s, 1, i - 1) \o SubSeq(s, i + 1, Len(s))

\* s without the items equal to x.
Without(s, x) == SelectSeq(s, LAMBDA y : y # x)

\* str(n) as its decimal digits, and back.
RECURSIVE Digits(_)
Digits(n) == IF n < 10 THEN <<n>> ELSE Append(Digits(n \div 10), n % 10)

RECURSIVE FromDigits(_)
FromDigits(d) ==
    IF d = <<>> THEN 0 ELSE FromDigits(SubSeq(d, 1, Len(d) - 1)) * 10 + d[Len(d)]

\* str.replace(old, new) on a run of characters: every occurrence, left to
\* right, without overlap.
RECURSIVE str_replace(_, _, _)
str_replace(s, old, new) ==
    IF Len(s) < Len(old) THEN s
    ELSE IF SubSeq(s, 1, Len(old)) = old
    THEN new \o str_replace(SubSeq(s, Len(old) + 1, Len(s)), old, new)
    ELSE <<Head(s)>> \o str_replace(Tail(s), old, new)

\* Keys of a Python dict built by inserting the items of s in order: a
\* repeated key keeps its first position.
RECURSIVE DictKeys(_)
DictKeys(s) ==
    IF s = <<>> THEN <<>>
    ELSE LET front == DictKeys(SubSeq(s, 1, Len(s) - 1))
             last == s[Len(s)]
         IN IF last \in Range(front) THEN front ELSE Append(front, last)

---------------------------------------------------------------------------
(* Construction of the input maps.                                         *)

EdgeSpecs ==
    [w : 1..Len(WorkloadNames), field : {"depends_on", "dependencies"}, to : AllNames]

EdgeLists(m) == UNION {[1..k -> EdgeSpecs] : k \in 0..m}

Targets(el, i, f) ==
    LET s == SelectSeq(el, LAMBDA e : e.w = i /\ e.field = f)
    IN [j \in 1..Len(s) |-> s[j].to]

\* The mapping {name: {"depends_on": [...], "dependencies": {...},
\* "resources": {...}}} with n workloads; res[i] is workload i's resources.
BuildWorkloads(n, el, res) ==
    [i \in 1..n |->
        [name |-> WorkloadNames[i],
         depends_on |-> Targets(el, i, "depends_on"),
         dependencies |-> DictKeys(Targets(el, i, "dependencies")),
         resources |-> res[i]]]

Keys(wls) == {wls[i].name : i \in 1..Len(wls)}

Get(wls, name) == wls[CHOOSE i \in 1..Len(wls) : wls[i].name = name]

---------------------------------------------------------------------------
(* Documents handed to the validators.                                     *)
(*                                                                         *)
(* A document text is kept as what yaml.safe_load makes of it: a syntax    *)
(* error, or a parsed root.  The root is null (empty text), a list, or a   *)
(* dict; its "workloads" value is absent, null or a dict of entries; an    *)
(* entry is null or a dict; its "dependencies" value is absent, null, a    *)
(* list of names or a dict keyed by names.                                 *)

\* A runtimeConfig text is kept as what the validators and the remediator
\* read from it: whether it holds "image", its HOST:CONTAINER port mappings
\* in text order (maps), and the host ports _extract_ports finds in it, in
\* the order of the list it returns (ports).
PortMap(host, container) == [host |-> host, container |-> container]

\* The container port of a mapping whose container port does not matter.
DefaultContainerPort == 80

RuntimeConfig(image, ports) ==
    [present |-> TRUE, image |-> image, ports |-> ports,
     maps |-> [i \in 1..Len(ports) |-> PortMap(ports[i], DefaultContainerPort)]]

NoRuntimeConfig == [present |-> FALSE, image |-> FALSE, ports |-> <<>>, maps |-> <<>>]

\* "absent" marks a field the entry does not have.
ValidEntry(name) ==
    [name |-> name, kind |-> "dict", runtime |-> "podman", agent |-> "agent_A",
     restartPolicy |-> "absent", runtimeConfig |-> RuntimeConfig(TRUE, <<>>),
     dkind |-> "absent", deps |-> <<>>]

Document(entries) ==
    [syntax_ok |-> TRUE,
     root |-> [kind |-> "dict", has_workloads |-> TRUE, wkind |-> "dict",
               entries |-> entries]]

\* The empty text.
NoDocument ==
    [syntax_ok |-> TRUE,
     root |-> [kind |-> "null", has_workloads |-> FALSE, wkind |-> "dict",
               entries |-> <<>>]]

\* A document text with its layout: dumped is TRUE when the text is byte
\* for byte what the remediator emits for the data it parses to (normalised
\* runtimeConfig texts, yaml.safe_dump layout), so two dumped texts are equal
\* exactly when their data are, and a text written any other way differs
\* from every dumped text.
Text(doc, dumped) == [syntax_ok |-> doc.syntax_ok, root |-> doc.root, dumped |-> dumped]

\* yaml.safe_dump(config, sort_keys=False, default_flow_style=False)
yaml_safe_dump(root) == [syntax_ok |-> TRUE, root |-> root, dumped |-> TRUE]

Returned(v) == [raised |-> FALSE, exc |-> "", value |-> v]

Raised(exc) == [raised |-> TRUE, exc |-> exc, value |-> <<>>]

\* yaml.safe_load(config_yaml)
yaml_safe_load(text) ==
    IF text.syntax_ok THEN Returned(text.root) ELSE Raised("YAMLError")

\* config.get('workloads', {}) on a parsed root: only a dict has get.
get_workloads(root) ==
    IF root.kind # "dict" THEN Raised("AttributeError")
    ELSE IF ~root.has_workloads THEN Returned([wkind |-> "dict", entries |-> <<>>])
    ELSE Returned([wkind |-> root.wkind, entries |-> root.entries])

EntryNames(entries) == {entries[i].name : i \in 1..Len(entries)}

\* Values of the variables a specification does not use.
NoOtherArguments ==
    /\ auto_heal = TRUE
    /\ all_errors = <<>>
    /\ history = <<>>
    /\ now = 0
    /\ previous = [ok |-> FALSE]

---------------------------------------------------------------------------
(* app/simulation/deployment_simulator.py : topo_sort                      *)

\* deps as dfs reads them: depends_on, or the keys of the dependencies
\* mapping when depends_on is absent or empty.
dfs_deps(wls, node) ==
    LET w == Get(wls, node)
    IN IF w.depends_on # <<>> THEN w.depends_on ELSE w.dependencies

\* The closure state of topo_sort: visited (0 stands for "no entry"),
\* result, cycles, missing.
TopoInit(wls) ==
    [visited |-> [k \in Keys(wls) |-> 0],
     result |-> <<>>,
     cycles |-> <<>>,
     missing |-> {}]

\* dfs(node, stack).  Its boolean return value is discarded by every caller
\* (`if not ok: pass`), so only its effect on the closure state is kept.
RECURSIVE dfs(_, _, _, _), dfs_loop(_, _, _, _)
dfs(wls, st, node, stack) ==
    IF node \notin Keys(wls) THEN [st EXCEPT !.missing = @ \cup {node}]
    ELSE IF st.visited[node] = 1
         THEN [st EXCEPT !.cycles = Append(@, Append(stack, node))]
    ELSE IF st.visited[node] = 2 THEN st
    ELSE LET st1 == [st EXCEPT !.visited[node] = 1]
             st2 == dfs_loop(wls, st1, dfs_deps(wls, node), Append(stack, node))
         IN [st2 EXCEPT !.visited[node] = 2, !.result = Append(@, node)]

\* for d in deps: dfs(d, stack + [node])
dfs_loop(wls, st, deps, stack) ==
    IF deps = <<>> THEN st
    ELSE dfs_loop(wls, dfs(wls, st, Head(deps), stack), Tail(deps), stack)

\* for w in workloads.keys(): if visited.get(w) is None: dfs(w, [])
RECURSIVE topo_visit_all(_, _, _)
topo_visit_all(wls, st, i) ==
    IF i > Len(wls) THEN st
    ELSE LET w == wls[i].name
         IN topo_visit_all(wls,
                           IF st.visited[w] = 0 THEN dfs(wls, st, w, <<>>) ELSE st,
                           i + 1)

\* A slip that returns the DFS finishing order back to front.
topo_sort_reversed(wls) ==
    LET st == topo_visit_all(wls, TopoInit(wls), 1)
    IN IF st.cycles # <<>>
       THEN [ok |-> FALSE, ordered |-> <<>>, cycles |-> st.cycles, missing |-> st.missing]
       ELSE [ok |-> TRUE, ordered |-> Reverse(st.result), cycles |-> <<>>,
             missing |-> st.missing]

\* A slip that treats a missing dependency as a failed ordering.
topo_sort_missing_fails(wls) ==
    LET st == topo_visit_all(wls, TopoInit(wls), 1)
    IN IF st.cycles # <<>> \/ st.missing # {}
       THEN [ok |-> FALSE, ordered |-> <<>>, cycles |-> st.cycles, missing |-> st.missing]
       ELSE [ok |-> TRUE, ordered |-> st.result, cycles |-> <<>>, missing |-> st.missing]

\* (ok, ordered, cycles, missing).  cycles is None when ok (written <<>>);
\* missing is list(set), whose order is unspecified, kept as the set.
topo_sort(wls) ==
    LET st == topo_visit_all(wls, TopoInit(wls), 1)
    IN IF st.cycles # <<>>
       THEN [ok |-> FALSE, ordered |-> <<>>, cycles |-> st.cycles, missing |-> st.missing]
       ELSE [ok |-> TRUE, ordered |-> st.result, cycles |-> <<>>, missing |-> st.missing]

---------------------------------------------------------------------------
(* Specification of topo_sort calls.                                       *)

InitTopo ==
    /\ \E n \in 0..Len(WorkloadNames), el \in EdgeLists(MaxEdges) :
          workloads = BuildWorkloads(n, el, [i \in 1..n |-> NoResources])
    /\ capacity = DefaultCapacity
    /\ config_yaml = NoDocument
    /\ current_workloads = <<>>
    /\ NoOtherArguments
    /\ pc = "start"
    /\ result = [ok |-> FALSE]

CallTopoSort ==
    /\ pc = "start"
    /\ pc' = "topo_sort"
    /\ result' = topo_sort(workloads)
    /\ UNCHANGED <<args, history, now, previous>>

NextTopo == CallTopoSort

SpecTopo == InitTopo /\ [][NextTopo]_vars

---------------------------------------------------------------------------
(* app/simulation/deployment_simulator.py : simulate_deployment            *)

\* A slip that refuses a workload only when both budgets are exceeded.
overcommit_both(used, res, cap) ==
    (used.cpu + res.cpu) > cap.cpu /\ (used.memory + res.memory) > cap.memory

\* The admission test of line 110.
overcommit(used, res, cap) ==
    (used.cpu + res.cpu) > cap.cpu \/ (used.memory + res.memory) > cap.memory

starting_event(svc, res, used) ==
    [event |-> "starting", service |-> svc, cpu |-> res.cpu, memory |-> res.memory,
     used_cpu_before |-> used.cpu, used_mem_before |-> used.memory]

failed_event(svc, res) ==
    [event |-> "failed_to_start", service |-> svc, cpu |-> res.cpu, memory |-> res.memory]

\* A slip that reports the usage of before the admission.
started_event_stale(svc, res, used) ==
    [event |-> "started", service |-> svc, cpu |-> res.cpu, memory |-> res.memory,
     used_cpu_after |-> used.cpu - res.cpu, used_mem_after |-> used.memory - res.memory]

started_event(svc, res, used) ==
    [event |-> "started", service |-> svc, cpu |-> res.cpu, memory |-> res.memory,
     used_cpu_after |-> used.cpu, used_mem_after |-> used.memory]

\* for svc in order: ... (lines 88-151), from position i of the order on.
\* Timestamps are wall-clock readings and are left out of the events.
RECURSIVE admission_loop(_, _, _, _, _, _, _)
admission_loop(wls, cap, order, i, used, issues, timeline) ==
    IF i > Len(order)
    THEN [success |-> TRUE, issues |-> issues, plan_order |-> order, timeline |-> timeline]
    ELSE LET svc == order[i]
             res == Get(wls, svc).resources
             tl1 == Append(timeline, starting_event(svc, res, used))
         IN IF overcommit(used, res, cap)
            THEN [success |-> FALSE,
                  issues |-> Append(issues, [type |-> "resource_overcommit", service |-> svc]),
                  plan_order |-> order,
                  timeline |-> Append(tl1, failed_event(svc, res))]
            ELSE LET used1 == [cpu |-> used.cpu + res.cpu,
                               memory |-> used.memory + res.memory]
                 IN admission_loop(wls, cap, order, i + 1, used1, issues,
                                   Append(tl1, started_event(svc, res, used1)))

\* A slip that drops the `if not ok` return of lines 69-75.
simulate_deployment_no_cycle_return(wls, cap) ==
    LET t == topo_sort(wls)
        issues == IF t.missing # {}
                  THEN <<[type |-> "missing_dependency", nodes |-> t.missing]>>
                  ELSE <<>>
    IN admission_loop(wls, cap, t.ordered, 1, [cpu |-> 0, memory |-> 0], issues, <<>>)

\* A slip that builds the missing-dependency advisory before the cycle
\* return and reports both.
simulate_deployment_cycle_keeps_advisory(wls, cap) ==
    LET t == topo_sort(wls)
        issues == IF t.missing # {}
                  THEN <<[type |-> "missing_dependency", nodes |-> t.missing]>>
                  ELSE <<>>
    IN IF ~t.ok
       THEN [success |-> FALSE,
             issues |-> Append(issues, [type |-> "circular_dependency", cycles |-> t.cycles]),
             plan_order |-> <<>>,
             timeline |-> <<>>]
       ELSE admission_loop(wls, cap, t.ordered, 1, [cpu |-> 0, memory |-> 0], issues, <<>>)

simulate_deployment(wls, cap) ==
    LET t == topo_sort(wls)
    IN IF ~t.ok
       THEN [success |-> FALSE,
             issues |-> <<[type |-> "circular_dependency", cycles |-> t.cycles]>>,
             plan_order |-> <<>>,
             timeline |-> <<>>]
       ELSE LET issues == IF t.missing # {}
                          THEN <<[type |-> "missing_dependency", nodes |-> t.missing]>>
                          ELSE <<>>
            IN admission_loop(wls, cap, t.ordered, 1, [cpu |-> 0, memory |-> 0],
                              issues, <<>>)

---------------------------------------------------------------------------
(* Specification of simulate_deployment calls.                             *)

InitSim ==
    /\ \E n \in 0..Len(WorkloadNames), el \in EdgeLists(MaxSimEdges),
          res \in [1..Len(WorkloadNames) -> ResourceProfiles] :
          workloads = BuildWorkloads(n, el, res)
    /\ capacity \in Capacities
    /\ config_yaml = NoDocument
    /\ current_workloads = <<>>
    /\ NoOtherArguments
    /\ pc = "start"
    /\ result = [ok |-> FALSE]

CallSimulate ==
    /\ pc = "start"
    /\ pc' = "simulate_deployment"
    /\ result' = simulate_deployment(workloads, capacity)
    /\ UNCHANGED <<args, history, now, previous>>

NextSim == CallSimulate

SpecSim == InitSim /\ [][NextSim]_vars

---------------------------------------------------------------------------
(* Dependency graph of a workloads map, stated without the traversal.      *)

\* w depends on d, d being a workload of the map.
DependsOn(wls, w, d) == d \in Keys(wls) /\ d \in Range(dfs_deps(wls, w))

\* A cycle exists exactly when some non-empty set of workloads has, for each
\* of its members, a dependency inside the set.
HasCycle(wls) ==
    \E S \in SUBSET Keys(wls) :
        /\ S # {}
        /\ \A w \in S : \E d \in S : DependsOn(wls, w, d)

IsPermutationOfKeys(wls, s) ==
    /\ Range(s) = Keys(wls)
    /\ Len(s) = Len(wls)

\* C1: for an acyclic workloads map topo_sort returns ok = true and an
\* order holding every workload once, each after all of its dependencies
\* that are workloads of the map.
C1_TopoOrder ==
    (pc = "topo_sort" /\ ~HasCycle(workloads)) =>
        /\ result.ok
        /\ IsPermutationOfKeys(workloads, result.ordered)
        /\ \A w, d \in Keys(workloads) :
              DependsOn(workloads, w, d) =>
                  IndexOf(result.ordered, d) < IndexOf(result.ordered, w)

\* An acyclic map whose first workload depends on a later key through
\* depends_on, and another on a later key through a dependencies mapping.
C1_Witness ==
    /\ pc = "topo_sort"
    /\ ~HasCycle(workloads)
    /\ Len(workloads) = 3
    /\ workloads[1].depends_on = <<"b">>
    /\ workloads[2].depends_on = <<>>
    /\ workloads[2].dependencies = <<"c">>
    /\ result.ordered = <<"c", "b", "a">>

---------------------------------------------------------------------------
(* Claims about simulate_deployment.                                       *)

Sim == pc = "simulate_deployment"

ResourcesOf(wls, svc) == Get(wls, svc).resources

\* Demand of the first i workloads of an order.
RECURSIVE Demand(_, _, _)
Demand(wls, order, i) ==
    IF i = 0 THEN [cpu |-> 0, memory |-> 0]
    ELSE LET d == Demand(wls, order, i - 1)
             r == ResourcesOf(wls, order[i])
         IN [cpu |-> d.cpu + r.cpu, memory |-> d.memory + r.memory]

Fits(wls, cap, order, i) ==
    /\ Demand(wls, order, i).cpu <= cap.cpu
    /\ Demand(wls, order, i).memory <= cap.memory

\* Position k of the order is the first whose admission would exceed the
\* capacity.
FirstRefused(wls, cap, order, k) ==
    /\ k \in 1..Len(order)
    /\ ~Fits(wls, cap, order, k)
    /\ \A j \in 1..(k - 1) : Fits(wls, cap, order, j)

EventsOf(tl, svc) == {j \in 1..Len(tl) : tl[j].service = svc}

Started(tl, svc) == \E j \in 1..Len(tl) : tl[j].event = "started" /\ tl[j].service = svc

IssuesOfType(issues, t) == {j \in 1..Len(issues) : issues[j].type = t}

\* C2: when admitting the next workload of the order would exceed the
\* capacity in cpu or memory, processing stops there: success is false,
\* there is exactly one resource_overcommit issue and it names that
\* workload, the timeline ends with its failed_to_start event, no later
\* workload has an event, and the earlier workloads keep their started
\* events.
C2_StopsAtOvercommit ==
    (Sim /\ ~HasCycle(workloads)) =>
        \A k \in 1..Len(result.plan_order) :
            FirstRefused(workloads, capacity, result.plan_order, k) =>
                LET order == result.plan_order
                    tl == result.timeline
                    oc == IssuesOfType(result.issues, "resource_overcommit")
                IN /\ result.success = FALSE
                   /\ Cardinality(oc) = 1
                   /\ \A j \in oc : result.issues[j].service = order[k]
                   /\ Len(tl) = 2 * k
                   /\ tl[Len(tl)].event = "failed_to_start"
                   /\ tl[Len(tl)].service = order[k]
                   /\ \A j \in (k + 1)..Len(order) : EventsOf(tl, order[j]) = {}
                   /\ \A j \in 1..(k - 1) : Started(tl, order[j])

\* The second of three workloads is refused, on memory alone, after the
\* first one started.
C2_Witness ==
    /\ Sim
    /\ Len(result.plan_order) = 3
    /\ FirstRefused(workloads, capacity, result.plan_order, 2)
    /\ Demand(workloads, result.plan_order, 2).cpu <= capacity.cpu
    /\ Len(result.timeline) = 4
    /\ result.timeline[2].event = "started"

\* C3: success is true exactly when the map has no dependency cycle and
\* every workload of plan_order has a started event.
C3_SuccessIff ==
    Sim =>
        (result.success = TRUE <=>
            /\ ~HasCycle(workloads)
            /\ \A i \in 1..Len(result.plan_order) :
                  Started(result.timeline, result.plan_order[i]))

\* Three workloads with a dependency, all admitted, using the whole cpu
\* budget.
C3_Witness ==
    /\ Sim
    /\ result.success = TRUE
    /\ Len(result.plan_order) = 3
    /\ result.plan_order # <<"a", "b", "c">>
    /\ Demand(workloads, result.plan_order, 3).cpu = capacity.cpu

\* p is a path of dependency edges that ends on a node it already holds.
ClosedPath(wls, p) ==
    /\ Len(p) >= 2
    /\ \A j \in 1..(Len(p) - 1) : DependsOn(wls, p[j], p[j + 1])
    /\ \E j \in 1..(Len(p) - 1) : p[j] = p[Len(p)]

\* C4: with a dependency cycle in the map the simulation fails before
\* admitting anything: success is false, the only issue is one
\* circular_dependency issue whose cycles are closed dependency paths (at
\* least one), plan_order and timeline are empty.
C4_CycleFailsFirst ==
    (Sim /\ HasCycle(workloads)) =>
        /\ result.success = FALSE
        /\ Len(result.issues) = 1
        /\ result.issues[1].type = "circular_dependency"
        /\ result.issues[1].cycles # <<>>
        /\ \A j \in 1..Len(result.issues[1].cycles) :
              ClosedPath(workloads, result.issues[1].cycles[j])
        /\ result.plan_order = <<>>
        /\ result.timeline = <<>>

\* a depends_on b, b depends_on a, as in the simulation-cycle property.
C4_Witness ==
    /\ Sim
    /\ Len(workloads) >= 2
    /\ workloads[1].depends_on = <<"b">>
    /\ workloads[2].depends_on = <<"a">>
    /\ result.issues = <<[type |-> "circular_dependency", cycles |-> <<<<"a", "b", "a">>>>]>>

\* Names a workload of the map depends on that are not keys of the map.
MissingRefs(wls) ==
    UNION {{d \in Range(dfs_deps(wls, wls[i].name)) : d \notin Keys(wls)} : i \in 1..Len(wls)}

RefersToMissing(wls, w) == \E d \in Range(dfs_deps(wls, w)) : d \notin Keys(wls)

\* The same map with the missing names taken out of the dependency lists.
WithoutMissing(wls) ==
    [i \in 1..Len(wls) |->
        [wls[i] EXCEPT
            !.depends_on = SelectSeq(dfs_deps(wls, wls[i].name), LAMBDA d : d \in Keys(wls)),
            !.dependencies = <<>>]]

\* C5: a dependency name that is not a workload key does not block ordering
\* or admission: success, plan_order and timeline are those of the map
\* without such names, so a workload referring to one is ordered whenever
\* no cycle is found and started whenever the run succeeds; the name is in
\* topo_sort's missing list, and when no cycle is found the issues carry a
\* missing_dependency advisory naming it, also when success is true.
C5_MissingIsLeaf ==
    Sim =>
        LET ref == simulate_deployment(WithoutMissing(workloads), capacity)
            refs == {w \in Keys(workloads) : RefersToMissing(workloads, w)}
        IN /\ result.success = ref.success
           /\ result.plan_order = ref.plan_order
           /\ result.timeline = ref.timeline
           /\ topo_sort(workloads).missing = MissingRefs(workloads)
           /\ ~HasCycle(workloads) => refs \subseteq Range(result.plan_order)
           /\ result.success => \A w \in refs : Started(result.timeline, w)
           /\ (~HasCycle(workloads) /\ MissingRefs(workloads) # {}) =>
                 /\ Cardinality(IssuesOfType(result.issues, "missing_dependency")) = 1
                 /\ result.issues[1] =
                       [type |-> "missing_dependency", nodes |-> MissingRefs(workloads)]

\* A successful run in which the first workload depends on the missing
\* name and on a real workload, and still starts after it.
C5_Witness ==
    /\ Sim
    /\ result.success = TRUE
    /\ Len(workloads) >= 2
    /\ workloads[1].depends_on = <<"x", "b">>
    /\ result.issues = <<[type |-> "missing_dependency", nodes |-> {"x"}]>>
    /\ Started(result.timeline, "a")
    /\ result.plan_order[1] = "b"

---------------------------------------------------------------------------
(* app/validators/schema_validator.py                                      *)

VALID_RUNTIMES == {"podman", "docker", "podman-kube"}

VALID_RESTART_POLICIES == {"NEVER", "ALWAYS", "ON_FAILURE"}

\* ' ' in name, name.islower(): tables over the names of the model.
contains_space(name) == name \in {"my app"}

islower(name) == name \notin {"", "App"}

Issue(type, severity, w, msg) ==
    [type |-> type, severity |-> severity, workload |-> w, msg |-> msg]

\* The part of an issue list one guard of _validate_workload adds.
When(cond, issue) == IF cond THEN <<issue>> ELSE <<>>

\* self.errors entries _validate_workload appends for a dict entry.
workload_errors(e) ==
    When(e.name = "", Issue("NAMING_ERROR", "ERROR", e.name, "name_empty"))
    \o When(contains_space(e.name), Issue("NAMING_ERROR", "ERROR", e.name, "contains_spaces"))
    \o When(e.runtime = "absent", Issue("MISSING_FIELD", "ERROR", e.name, "runtime_required"))
    \o When(e.runtime # "absent" /\ e.runtime \notin VALID_RUNTIMES,
            Issue("INVALID_VALUE", "ERROR", e.name, "invalid_runtime"))
    \o When(e.agent = "absent", Issue("MISSING_FIELD", "ERROR", e.name, "agent_required"))
    \o When(e.restartPolicy # "absent" /\ e.restartPolicy \notin VALID_RESTART_POLICIES,
            Issue("INVALID_VALUE", "ERROR", e.name, "invalid_restart_policy"))

\* self.warnings entries _validate_workload appends for a dict entry.
workload_warnings(e) ==
    When(~islower(e.name) /\ e.name # "",
         Issue("NAMING_WARNING", "WARNING", e.name, "should_be_lowercase"))
    \o When(~e.runtimeConfig.present,
            Issue("MISSING_FIELD", "WARNING", e.name, "no_runtime_config"))
    \o When(e.runtimeConfig.present /\ ~e.runtimeConfig.image,
            Issue("MISSING_IMAGE", "WARNING", e.name, "no_image"))

\* for workload_name, workload_config in workloads.items():
\*     self._validate_workload(...)
\* `'runtime' not in config` raises TypeError on a null entry.
RECURSIVE validate_workloads(_, _, _, _)
validate_workloads(entries, i, errors, warnings) ==
    IF i > Len(entries) THEN Returned([errors |-> errors, warnings |-> warnings])
    ELSE IF entries[i].kind # "dict" THEN Raised("TypeError")
    ELSE validate_workloads(entries, i + 1,
                            errors \o workload_errors(entries[i]),
                            warnings \o workload_warnings(entries[i]))

\* ConfigurationValidator.validate_workload_config(config_yaml)
\*   -> (is_valid, issues)
validate_workload_config(text) ==
    LET y == yaml_safe_load(text)
        fail(type) == Returned([is_valid |-> FALSE,
                                issues |-> <<[type |-> type, severity |-> "ERROR"]>>])
    IN IF y.raised THEN fail("SYNTAX_ERROR")
       ELSE IF y.value.kind # "dict" THEN fail("STRUCTURE_ERROR")
       ELSE IF ~y.value.has_workloads THEN fail("MISSING_SECTION")
       ELSE IF y.value.wkind # "dict" THEN Raised("AttributeError")
       ELSE LET v == validate_workloads(y.value.entries, 1, <<>>, <<>>)
            IN IF v.raised THEN v
               ELSE Returned([is_valid |-> Len(v.value.errors) = 0,
                              issues |-> v.value.errors \o v.value.warnings])

---------------------------------------------------------------------------
(* app/validators/conflict_detector.py                                     *)

\* port_map[port] = workload_name
MapPut(m, port, name) ==
    [q \in DOMAIN m \cup {port} |-> IF q = port THEN name ELSE m[q]]

\* for port in ports: port_map[port] = workload_name (lines 53-54)
RECURSIVE claim_ports(_, _, _)
claim_ports(m, name, ports) ==
    IF ports = <<>> THEN m
    ELSE claim_ports(MapPut(m, Head(ports), name), name, Tail(ports))

\* for workload in self.current_workloads (lines 48-54)
RECURSIVE current_port_map(_, _, _)
current_port_map(current, i, m) ==
    IF i > Len(current) THEN m
    ELSE current_port_map(current, i + 1,
                          claim_ports(m, current[i].name, current[i].runtimeConfig.ports))

\* for port in ports (lines 62-75), for one new workload: the map and the
\* errors after it.
RECURSIVE check_ports(_, _, _, _)
check_ports(m, errors, name, ports) ==
    IF ports = <<>> THEN [map |-> m, errors |-> errors]
    ELSE LET port == Head(ports)
         IN IF port \in DOMAIN m /\ m[port] # name
            THEN check_ports(m,
                             Append(errors,
                                    [type |-> "PORT_CONFLICT", severity |-> "ERROR",
                                     workload |-> name, port |-> port,
                                     conflicting_workload |-> m[port],
                                     msg |-> "port_already_used"]),
                             name, Tail(ports))
            ELSE check_ports(MapPut(m, port, name), errors, name, Tail(ports))

\* for workload_name, workload_config in new_workloads.items() (lines 58-75)
RECURSIVE check_new_workloads(_, _, _, _)
check_new_workloads(entries, i, m, errors) ==
    IF i > Len(entries) THEN Returned(errors)
    ELSE IF entries[i].kind # "dict" THEN Raised("AttributeError")
    ELSE LET r == check_ports(m, errors, entries[i].name, entries[i].runtimeConfig.ports)
         IN check_new_workloads(entries, i + 1, r.map, r.errors)

\* _check_port_conflicts with a port map that starts empty.
_check_port_conflicts_unseeded(root, current) ==
    LET g == get_workloads(root)
    IN IF g.raised THEN g
       ELSE IF g.value.wkind # "dict" THEN Raised("AttributeError")
       ELSE check_new_workloads(g.value.entries, 1, <<>>, <<>>)

\* ResourceConflictDetector(current)._check_port_conflicts(config)
_check_port_conflicts(root, current) ==
    LET g == get_workloads(root)
    IN IF g.raised THEN g
       ELSE IF g.value.wkind # "dict" THEN Raised("AttributeError")
       ELSE check_new_workloads(g.value.entries, 1,
                                current_port_map(current, 1, <<>>), <<>>)

\* The attributes a ResourceConflictDetector instance answers to.
ResourceConflictDetectorMethods ==
    {"detect_conflicts", "_check_port_conflicts", "_extract_ports"}

\* ResourceConflictDetector(current).detect_conflicts(config_yaml)
\*   -> (no_conflicts, errors)
detect_conflicts(text, current) ==
    LET y == yaml_safe_load(text)
    IN IF y.raised
       THEN Returned([no_conflicts |-> FALSE,
                      issues |-> <<[type |-> "YAML_ERROR", severity |-> "ERROR"]>>])
       ELSE LET c == _check_port_conflicts(y.value, current)
            IN IF c.raised THEN c
               ELSE Returned([no_conflicts |-> Len(c.value) = 0, issues |-> c.value])

---------------------------------------------------------------------------
(* app/validators/dependency_validator.py                                  *)

\* Names of the deployed workloads, as DependencyValidator.__init__ keeps
\* them.
current_workload_names(current) == {current[i].name : i \in 1..Len(current)}

\* graph = {name: list(deps.keys())} of lines 86-89; .items() needs a dict
\* of workloads, .get a dict entry, .keys() a dict of dependencies.
build_graph(wl) ==
    IF wl.wkind # "dict" THEN Raised("AttributeError")
    ELSE IF \E i \in 1..Len(wl.entries) :
               \/ wl.entries[i].kind # "dict"
               \/ wl.entries[i].dkind \in {"null", "list"}
         THEN Raised("AttributeError")
         ELSE Returned([i \in 1..Len(wl.entries) |->
                          [name |-> wl.entries[i].name, deps |-> wl.entries[i].deps]])

GraphKeys(graph) == {graph[i].name : i \in 1..Len(graph)}

Neighbors(graph, node) == graph[CHOOSE i \in 1..Len(graph) : graph[i].name = node].deps

\* dfs(node, path) of lines 95-117 on the closure state visited, rec_stack,
\* cycles; returns the state and the boolean.  path.index(neighbor) raises
\* ValueError when the neighbor is not on the path.
RECURSIVE cycle_dfs(_, _, _, _), cycle_dfs_loop(_, _, _, _, _)
cycle_dfs(graph, st, node, path) ==
    LET st1 == [st EXCEPT !.visited = @ \cup {node}, !.rec_stack = @ \cup {node}]
        r == cycle_dfs_loop(graph, st1, node, Append(path, node), Neighbors(graph, node))
    IN IF r.st.raised \/ r.ret THEN r
       ELSE [st |-> [r.st EXCEPT !.rec_stack = @ \ {node}], ret |-> FALSE]

cycle_dfs_loop(graph, st, node, path, nbrs) ==
    IF nbrs = <<>> THEN [st |-> st, ret |-> FALSE]
    ELSE LET neighbor == Head(nbrs)
         IN IF neighbor \notin GraphKeys(graph)
            THEN cycle_dfs_loop(graph, st, node, path, Tail(nbrs))
            ELSE IF neighbor \notin st.visited
            THEN LET r == cycle_dfs(graph, st, neighbor, path)
                 IN IF r.st.raised \/ r.ret THEN [st |-> r.st, ret |-> TRUE]
                    ELSE cycle_dfs_loop(graph, r.st, node, path, Tail(nbrs))
            ELSE IF neighbor \in st.rec_stack
            THEN IF neighbor \in Range(path)
                 THEN LET cycle == Append(SubSeq(path,
                                                 CHOOSE i \in 1..Len(path) :
                                                     /\ path[i] = neighbor
                                                     /\ \A j \in 1..(i - 1) : path[j] # neighbor,
                                                 Len(path)),
                                          neighbor)
                      IN [st |-> [st EXCEPT !.cycles = Append(@, cycle)], ret |-> TRUE]
                 ELSE [st |-> [st EXCEPT !.raised = TRUE], ret |-> FALSE]
            ELSE cycle_dfs_loop(graph, st, node, path, Tail(nbrs))

\* for node in graph: if node not in visited: dfs(node, [])
RECURSIVE cycle_visit_all(_, _, _)
cycle_visit_all(graph, st, i) ==
    IF i > Len(graph) \/ st.raised THEN st
    ELSE cycle_visit_all(graph,
                         IF graph[i].name \notin st.visited
                         THEN cycle_dfs(graph, st, graph[i].name, <<>>).st
                         ELSE st,
                         i + 1)

\* detect_circular_dependencies(workloads) -> (has_cycles, cycles)
detect_circular_dependencies(wl) ==
    LET g == build_graph(wl)
    IN IF g.raised THEN g
       ELSE LET st == cycle_visit_all(g.value,
                                      [visited |-> {}, rec_stack |-> {}, cycles |-> <<>>,
                                       raised |-> FALSE],
                                      1)
            IN IF st.raised THEN Raised("ValueError")
               ELSE Returned([has_cycles |-> Len(st.cycles) > 0, cycles |-> st.cycles])

\* The body of `for dep_name in dependencies` (lines 43-62) for one workload.
RECURSIVE dependency_errors(_, _, _)
dependency_errors(name, deps, all_available) ==
    IF deps = <<>> THEN <<>>
    ELSE LET dep_name == Head(deps)
             missing == IF dep_name \notin all_available
                        THEN <<[type |-> "MISSING_DEPENDENCY", severity |-> "ERROR",
                                workload |-> name, dependency |-> dep_name]>>
                        ELSE <<>>
             self == IF dep_name = name
                     THEN <<[type |-> "SELF_DEPENDENCY", severity |-> "ERROR",
                             workload |-> name]>>
                     ELSE <<>>
         IN missing \o self \o dependency_errors(name, Tail(deps), all_available)

\* for workload_name, workload_config in workloads.items() (lines 40-62):
\* a null entry has no get, a null dependencies value cannot be iterated.
RECURSIVE check_dependencies(_, _, _, _)
check_dependencies(entries, all_available, i, errors) ==
    IF i > Len(entries) THEN Returned(errors)
    ELSE IF entries[i].kind # "dict" THEN Raised("AttributeError")
    ELSE IF entries[i].dkind = "null" THEN Raised("TypeError")
    ELSE check_dependencies(entries, all_available, i + 1,
             errors \o dependency_errors(entries[i].name, entries[i].deps, all_available))

cycle_errors(cycles) ==
    [j \in 1..Len(cycles) |->
        [type |-> "CIRCULAR_DEPENDENCY", severity |-> "ERROR", cycle |-> cycles[j]]]

\* DependencyValidator(names).validate_dependencies(config_yaml)
\*   -> (is_valid, errors)
validate_dependencies(text, names) ==
    LET y == yaml_safe_load(text)
    IN IF y.raised
       THEN Returned([is_valid |-> FALSE,
                      errors |-> <<[type |-> "YAML_ERROR", severity |-> "ERROR"]>>])
       ELSE LET g == get_workloads(y.value)
            IN IF g.raised THEN g
               ELSE IF g.value.wkind # "dict" THEN Raised("AttributeError")
               ELSE LET chk == check_dependencies(g.value.entries,
                                                  names \cup EntryNames(g.value.entries),
                                                  1, <<>>)
                    IN IF chk.raised THEN chk
                       ELSE LET c == detect_circular_dependencies(g.value)
                            IN IF c.raised THEN c
                               ELSE LET errors == chk.value \o
                                                  (IF c.value.has_cycles
                                                   THEN cycle_errors(c.value.cycles)
                                                   ELSE <<>>)
                                    IN Returned([is_valid |-> Len(errors) = 0,
                                                 errors |-> errors])

---------------------------------------------------------------------------
(* app/validators/test_executor.py : PreDeploymentTester                   *)

CountSeverity(issues, sev) ==
    Cardinality({j \in 1..Len(issues) : issues[j].severity = sev})

RECURSIVE SumSeverity(_, _, _)
SumSeverity(tests, sev, i) ==
    IF i = 0 THEN 0
    ELSE SumSeverity(tests, sev, i - 1) + CountSeverity(tests[i].issues, sev)

CountStatus(tests, status) ==
    Cardinality({j \in 1..Len(tests) : tests[j].status = status})

Test(name, status, issues) == [name |-> name, status |-> status, issues |-> issues]

PassedIf(ok) == IF ok THEN "PASSED" ELSE "FAILED"

\* Test 3 of run_validation_suite (lines 65-89): any failure of the parse,
\* of config.get or of the detection skips the test.
pre_cycle_test(text, current) ==
    LET y == yaml_safe_load(text)
        g == get_workloads(y.value)
        c == detect_circular_dependencies(g.value)
    IN IF y.raised \/ g.raised \/ c.raised
       THEN Test("Circular Dependency Check", "SKIPPED", <<>>)
       ELSE Test("Circular Dependency Check",
                 IF c.value.has_cycles THEN "FAILED" ELSE "PASSED",
                 cycle_errors(c.value.cycles))

\* PreDeploymentTester(current).run_validation_suite(config_yaml)
run_validation_suite(text, current) ==
    LET schema == validate_workload_config(text)
        dep == validate_dependencies(text, current_workload_names(current))
        conflict == detect_conflicts(text, current)
    IN IF schema.raised THEN schema
       ELSE IF dep.raised THEN dep
       ELSE IF conflict.raised THEN conflict
       ELSE LET tests == <<Test("Schema Validation", PassedIf(schema.value.is_valid),
                                schema.value.issues),
                           Test("Dependency Validation", PassedIf(dep.value.is_valid),
                                dep.value.errors),
                           pre_cycle_test(text, current),
                           Test("Resource Conflict Detection",
                                PassedIf(conflict.value.no_conflicts),
                                conflict.value.issues)>>
                failed == CountStatus(tests, "FAILED")
            IN Returned(
                 [overall_status |-> IF failed > 0 THEN "FAILED" ELSE "PASSED",
                  tests |-> tests,
                  summary |-> [total_tests |-> Len(tests),
                               passed |-> CountStatus(tests, "PASSED"),
                               failed |-> failed,
                               skipped |-> CountStatus(tests, "SKIPPED"),
                               total_errors |-> SumSeverity(tests, "ERROR", Len(tests)),
                               total_warnings |-> SumSeverity(tests, "WARNING", Len(tests))]])

---------------------------------------------------------------------------
(* app/validators/deployment_validator.py : _run_validation_suite          *)

CountedTest(name, status, issues, errors, warnings) ==
    [name |-> name, status |-> status, issues |-> issues,
     error_count |-> errors, warning_count |-> warnings]

\* Test 3 (lines 192-225) once the detection has ended with outcome c:
\* [test, overall FAILED?, errors added].
deployment_cycle_report(c) ==
    IF c.raised
    THEN [test |-> CountedTest("Circular Dependency Check", "FAILED",
                               <<[severity |-> "ERROR", msg |-> "check_failed"]>>, 1, 0),
          failed |-> TRUE, errors |-> 1]
    ELSE [test |-> CountedTest("Circular Dependency Check",
                               IF c.value.has_cycles THEN "FAILED" ELSE "PASSED",
                               [j \in 1..Len(c.value.cycles) |->
                                   [type |-> "CIRCULAR_DEPENDENCY", severity |-> "ERROR",
                                    msg |-> "circular_dependency_detected"]],
                               IF c.value.has_cycles THEN Len(c.value.cycles) ELSE 0, 0),
          failed |-> c.value.has_cycles,
          errors |-> IF c.value.has_cycles THEN Len(c.value.cycles) ELSE 0]

\* Test 3 (lines 192-225): a failure of config.get or of the detection is
\* caught.
deployment_cycle_test(root) ==
    deployment_cycle_report(
        IF get_workloads(root).raised THEN get_workloads(root)
        ELSE detect_circular_dependencies(get_workloads(root).value))

\* self.conflict_detector.check_port_conflicts(config.get('workloads', {}))
\* of line 229: the detector has no attribute of that name.
deployment_conflicts(root) ==
    IF "check_port_conflicts" \in ResourceConflictDetectorMethods
    THEN _check_port_conflicts(root, <<>>)
    ELSE Raised("AttributeError")

\* Test 4 (lines 227-255) once the detection has ended with outcome c:
\* [test, warnings added]; overall_status is not touched.
deployment_conflict_report(c) ==
    IF c.raised
    THEN [test |-> CountedTest("Resource Conflict Detection", "FAILED",
                               <<[severity |-> "WARNING", msg |-> "detection_failed"]>>,
                               0, 1),
          warnings |-> 1]
    ELSE [test |-> CountedTest("Resource Conflict Detection",
                               IF Len(c.value) > 0 THEN "FAILED" ELSE "PASSED",
                               [j \in 1..Len(c.value) |->
                                   [type |-> "RESOURCE_CONFLICT", severity |-> "WARNING",
                                    msg |-> "port_conflict"]],
                               0, Len(c.value)),
          warnings |-> Len(c.value)]

deployment_conflict_test(root) == deployment_conflict_report(deployment_conflicts(root))

\* The report of lines 135-257 from the outcomes of the parse, of Test 1
\* and of Test 2, and the reports of Test 3 and Test 4.
deployment_report(y, schema, dep, cyc, con) ==
    IF y.raised
    THEN Returned([overall_status |-> "FAILED",
                   tests |-> <<Test("YAML Parse", "FAILED",
                                    <<[severity |-> "ERROR", msg |-> "invalid_yaml"]>>)>>,
                   total_errors |-> 0,
                   total_warnings |-> 0])
    ELSE IF schema.raised THEN schema
    ELSE IF dep.raised THEN dep
    ELSE LET se == CountSeverity(schema.value.issues, "ERROR")
             sw == CountSeverity(schema.value.issues, "WARNING")
             de == CountSeverity(dep.value.errors, "ERROR")
             dw == CountSeverity(dep.value.errors, "WARNING")
         IN Returned(
              [overall_status |-> IF se > 0 \/ de > 0 \/ cyc.failed
                                  THEN "FAILED" ELSE "PASSED",
               tests |-> <<CountedTest("Schema Validation",
                                       PassedIf(schema.value.is_valid),
                                       schema.value.issues, se, sw),
                           CountedTest("Dependency Validation",
                                       PassedIf(dep.value.is_valid),
                                       dep.value.errors, de, dw),
                           cyc.test,
                           con.test>>,
               total_errors |-> se + de + cyc.errors,
               total_warnings |-> sw + dw + con.warnings])

\* DeploymentValidator(current)._run_validation_suite(config_yaml)
_run_validation_suite(text, current) ==
    deployment_report(yaml_safe_load(text),
                      validate_workload_config(text),
                      validate_dependencies(text, current_workload_names(current)),
                      deployment_cycle_test(yaml_safe_load(text).value),
                      deployment_conflict_test(yaml_safe_load(text).value))

---------------------------------------------------------------------------
(* app/validators/config_remediator.py                                     *)

default_agent == "agent_A"

\* The allow-list with its entries swapped.
valid_runtimes_kube_first == <<"podman-kube", "podman">>

valid_runtimes == <<"podman", "podman-kube">>

\* issue.get(field, default)
issue_get(issue, field, default) ==
    IF field \in DOMAIN issue THEN issue[field] ELSE default

\* issue.get("message", ""): the message each validator writes into an
\* issue, kept as a tag.  MISSING_DEPENDENCY reads
\* 'Dependency "<d>" does not exist', SELF_DEPENDENCY
\* 'Workload "<w>" cannot depend on itself'.
message_of(issue) ==
    IF "msg" \in DOMAIN issue THEN issue.msg
    ELSE IF "type" \notin DOMAIN issue THEN ""
    ELSE IF issue.type = "MISSING_DEPENDENCY" THEN "dependency_does_not_exist"
    ELSE IF issue.type = "SELF_DEPENDENCY" THEN "cannot_depend_on_itself"
    ELSE IF issue.type = "CIRCULAR_DEPENDENCY" THEN "circular_dependency_detected"
    ELSE "other"

\* The branch of the if/elif chain of lines 47-123 an issue takes.  The
\* substring tests are tables over the message tags; "depends_on_missing"
\* stands for a message holding both "depends on" and "doesn't exist",
\* which no validator writes.
fix_rule(issue) ==
    LET msg == message_of(issue)
    IN IF msg = "runtime_required" THEN "missing_runtime"
       ELSE IF msg = "invalid_runtime" THEN "invalid_runtime"
       ELSE IF msg = "agent_required" THEN "missing_agent"
       ELSE IF msg \in {"contains_spaces", "should_be_lowercase"} THEN "naming"
       ELSE IF msg = "no_runtime_config" THEN "missing_runtimeConfig"
       ELSE IF msg = "depends_on_missing" THEN "missing_dependency"
       ELSE IF issue_get(issue, "type", "") = "SELF_DEPENDENCY"
               \/ msg = "cannot_depend_on_itself" THEN "self_dependency"
       ELSE IF issue_get(issue, "type", "") = "CIRCULAR_DEPENDENCY"
               /\ "cycle" \in DOMAIN issue THEN "circular_dependency"
       ELSE IF msg = "port_already_used" THEN "port_conflict"
       ELSE "none"

\* workload_name.replace(" ", "_").lower(), a table over the names of the
\* model.
new_name_of(name) ==
    IF name = "my app" THEN "my_app" ELSE IF name = "App" THEN "app" ELSE name

\* workloads[new_name] = workloads.pop(workload_name): the popped entry
\* takes the place of an entry already under new_name, or goes last.
rename_workload(entries, i, new_name) ==
    LET e == [entries[i] EXCEPT !.name = new_name]
        rest == RemoveAt(entries, i)
    IN IF \E j \in 1..Len(rest) : rest[j].name = new_name
       THEN [j \in 1..Len(rest) |-> IF rest[j].name = new_name THEN e ELSE rest[j]]
       ELSE Append(rest, e)

\* w["dependencies"].pop(dep, None), then w.pop("dependencies") when the
\* mapping is left empty.
pop_dependency(e, dep) ==
    [e EXCEPT !.deps = Without(@, dep),
              !.dkind = IF Without(e.deps, dep) = <<>> THEN "absent" ELSE @]

\* _extract_ports on the mappings of a runtimeConfig: list(set(hosts)),
\* which lists the ports of the model in ascending order.
_extract_ports(maps) == SortedSeq({maps[j].host : j \in 1..Len(maps)})

\* int(str(q).replace(str(port), str(port + 1)))
replace_port(q, port) ==
    FromDigits(str_replace(Digits(q), Digits(port), Digits(port + 1)))

\* w["runtimeConfig"].replace(str(port), str(port + 1)) of line 126: every
\* number of the text is rewritten.
replace_in_runtimeConfig(rc, port) ==
    LET maps == [j \in 1..Len(rc.maps) |->
                    PortMap(replace_port(rc.maps[j].host, port),
                            replace_port(rc.maps[j].container, port))]
    IN [rc EXCEPT !.maps = maps, !.ports = _extract_ports(maps)]

LogEntry(fix, w) == [fix |-> fix, workload |-> w]

Failed(st, exc) == [st EXCEPT !.exc = exc]

Logged(st, entries, fix, w) ==
    [st EXCEPT !.entries = entries, !.log = Append(@, LogEntry(fix, w))]


\* FIX 6c (lines 107-120): break the cycle at cycle[0] -> cycle[1].
fix_circular(st, cycle) ==
    IF Len(cycle) < 2 THEN st
    ELSE LET src == cycle[1]
             dst == cycle[2]
             found == {j \in 1..Len(st.entries) : st.entries[j].name = src}
         IN IF found = {} THEN st
            ELSE LET j == CHOOSE k \in found : TRUE
                     e == st.entries[j]
                 IN IF e.kind # "dict" THEN Failed(st, "TypeError")
                    ELSE IF e.dkind = "absent" THEN st
                    ELSE IF e.dkind = "null" THEN Failed(st, "TypeError")
                    ELSE IF dst \notin Range(e.deps) THEN st
                    ELSE IF e.dkind = "list" THEN Failed(st, "TypeError")
                    ELSE Logged(st, [st.entries EXCEPT ![j] = pop_dependency(e, dst)],
                                "removed_cycle_edge", src)

\* The body of `for issue in issues` (lines 39-129) for one issue, on the
\* workloads in key order, the log and the exception raised so far.
apply_fix(st, issue) ==
    LET name == issue_get(issue, "workload", "")
        found == IF "workload" \in DOMAIN issue
                 THEN {i \in 1..Len(st.entries) : st.entries[i].name = name}
                 ELSE {}
        rule == fix_rule(issue)
    IN IF found = {} THEN st
       ELSE LET i == CHOOSE k \in found : TRUE
                w == st.entries[i]
                put(e) == [st.entries EXCEPT ![i] = e]
            IN IF rule = "none" THEN st
               ELSE IF rule = "naming"
               THEN Logged(st, rename_workload(st.entries, i, new_name_of(name)),
                           "renamed", name)
               ELSE IF rule = "circular_dependency" THEN fix_circular(st, issue.cycle)
               ELSE IF w.kind # "dict" THEN Failed(st, "TypeError")
               ELSE IF rule \in {"missing_runtime", "invalid_runtime"}
               THEN Logged(st, put([w EXCEPT !.runtime = valid_runtimes[1]]), rule, name)
               ELSE IF rule = "missing_agent"
               THEN Logged(st, put([w EXCEPT !.agent = default_agent]), rule, name)
               ELSE IF rule = "missing_runtimeConfig"
               THEN Logged(st, put([w EXCEPT !.runtimeConfig = RuntimeConfig(TRUE, <<>>)]),
                           rule, name)
               ELSE IF rule = "missing_dependency"
               THEN IF w.dkind = "absent" THEN st
                    ELSE IF w.dkind = "null" THEN Failed(st, "AttributeError")
                    ELSE IF w.dkind = "list" THEN Failed(st, "TypeError")
                    ELSE Logged(st, put(pop_dependency(w, issue_get(issue, "dependency",
                                                                    "unknown"))),
                                rule, name)
               ELSE IF rule = "self_dependency"
               THEN IF w.dkind = "absent" THEN st
                    ELSE IF w.dkind = "null" THEN Failed(st, "TypeError")
                    ELSE IF name \notin Range(w.deps) THEN st
                    ELSE IF w.dkind = "list" THEN Failed(st, "TypeError")
                    ELSE Logged(st, put(pop_dependency(w, name)), rule, name)
               ELSE \* rule = "port_conflict"
                    IF w.runtimeConfig.present /\ issue_get(issue, "port", 0) # 0
                    THEN Logged(st,
                                put([w EXCEPT !.runtimeConfig =
                                        replace_in_runtimeConfig(@, issue.port)]),
                                rule, name)
                    ELSE st

\* for issue in issues (line 38)
RECURSIVE apply_fixes(_, _)
apply_fixes(st, todo) ==
    IF todo = <<>> \/ st.exc # "" THEN st
    ELSE apply_fixes(apply_fix(st, Head(todo)), Tail(todo))

\* The dependencies cleanup of lines 188-230, workload by workload; the
\* image qualification and the whitespace normalisation of lines 134-185
\* change nothing a validator reads.
RECURSIVE cleanup_dependencies(_, _)
cleanup_dependencies(st, i) ==
    IF i > Len(st.entries) THEN st
    ELSE LET e == st.entries[i]
             dropped == [st.entries EXCEPT ![i] = [e EXCEPT !.dkind = "absent", !.deps = <<>>]]
         IN IF e.kind # "dict" \/ e.dkind = "absent" THEN cleanup_dependencies(st, i + 1)
            ELSE IF e.dkind # "dict"
            THEN cleanup_dependencies(
                     Logged(st, dropped, "removed_invalid_dependencies", e.name), i + 1)
            ELSE IF e.deps = <<>>
            THEN cleanup_dependencies(
                     Logged(st, dropped, "removed_empty_dependencies", e.name), i + 1)
            ELSE cleanup_dependencies(st, i + 1)

\* ConfigurationRemediator().auto_fix(config_yaml, issues)
\*   -> (remediated_yaml_text, remediation_log)
auto_fix(text, todo) ==
    LET y == yaml_safe_load(text)
    IN IF y.raised
       THEN Returned([config |-> text, log |-> <<LogEntry("parse_failed", "")>>])
       ELSE IF y.value.kind # "dict" \/ ~y.value.has_workloads
       THEN Returned([config |-> text, log |-> <<LogEntry("no_workloads", "")>>])
       ELSE IF y.value.wkind # "dict"
       THEN Raised(IF todo = <<>> THEN "AttributeError" ELSE "TypeError")
       ELSE LET fixed == apply_fixes([entries |-> y.value.entries, log |-> <<>>, exc |-> ""],
                                     todo)
                clean == cleanup_dependencies(fixed, 1)
            IN IF fixed.exc # "" THEN Raised(fixed.exc)
               ELSE Returned(
                      [config |-> yaml_safe_dump([y.value EXCEPT !.entries = clean.entries]),
                       log |-> IF clean.log = <<>> THEN <<LogEntry("no_fixes", "")>>
                               ELSE clean.log])

---------------------------------------------------------------------------
(* app/validators/deployment_validator.py : validate_and_heal              *)

\* _extract_errors_from_report(validation_report)
RECURSIVE errors_of_tests(_)
errors_of_tests(tests) ==
    IF tests = <<>> THEN <<>>
    ELSE SelectSeq(Head(tests).issues, LAMBDA i : i.severity = "ERROR")
         \o errors_of_tests(Tail(tests))

_extract_errors_from_report(report) == errors_of_tests(report.tests)

\* A dict without tests: {}.
NoReport == [tests |-> <<>>]

\* The result of lines 57-69; healed_validation is kept beside the
\* validation_report it is stored in, remaining_issues is <<>> when absent.
HealingResult(text, report) ==
    [success |-> FALSE, original_valid |-> FALSE, healed |-> FALSE,
     final_valid |-> FALSE, config |-> text, validation_report |-> report,
     healed_validation |-> NoReport,
     healing_report |-> [attempted |-> FALSE, logs |-> <<>>, remaining_issues |-> <<>>]]

\* STEP 3 (lines 101-119): the result once the healed text, fix.config, has
\* gone through the validation suite with outcome hv.
heal_revalidated(text, report, fix, hv) ==
    IF hv.raised THEN hv
    ELSE Returned([HealingResult(text, report) EXCEPT
                      !.config = fix.config,
                      !.healed = TRUE,
                      !.healed_validation = hv.value,
                      !.final_valid = _extract_errors_from_report(hv.value) = <<>>,
                      !.success = _extract_errors_from_report(hv.value) = <<>>,
                      !.healing_report.attempted = TRUE,
                      !.healing_report.logs =
                          Append(fix.log,
                                 LogEntry(IF _extract_errors_from_report(hv.value) = <<>>
                                          THEN "healed" ELSE "issues_remain", "")),
                      !.healing_report.remaining_issues =
                          _extract_errors_from_report(hv.value)])

\* STEP 2 (lines 90-119): the result once auto_fix has ended with outcome f.
heal_fixed(text, current, report, f) ==
    IF f.raised THEN f
    ELSE IF f.value.config = text
    THEN Returned([HealingResult(text, report) EXCEPT
                      !.healing_report.attempted = TRUE,
                      !.healing_report.logs =
                          Append(f.value.log, LogEntry("no_fixes_applied", ""))])
    ELSE heal_revalidated(text, report, f.value,
                          _run_validation_suite(f.value.config, current))

\* STEP 1 (lines 74-124): the result once the validation suite has ended
\* with outcome v.
heal_validated(text, heal, current, v) ==
    IF v.raised THEN v
    ELSE IF _extract_errors_from_report(v.value) = <<>>
    THEN Returned([HealingResult(text, v.value) EXCEPT
                      !.original_valid = TRUE, !.success = TRUE,
                      !.final_valid = TRUE,
                      !.healing_report.logs = <<LogEntry("valid", "")>>])
    ELSE IF ~heal
    THEN Returned([HealingResult(text, v.value) EXCEPT
                      !.healing_report.logs = <<LogEntry("healing_disabled", "")>>])
    ELSE heal_fixed(text, current, v.value,
                    auto_fix(text, _extract_errors_from_report(v.value)))

\* DeploymentValidator(current).validate_and_heal(config_yaml, auto_heal)
validate_and_heal(text, heal, current) ==
    heal_validated(text, heal, current, _run_validation_suite(text, current))

---------------------------------------------------------------------------
(* app/AnkCommunicationService.py : validate_and_heal_config               *)

WithStatus(r, status) ==
    [f \in DOMAIN r \cup {"deployment_status"} |->
        IF f = "deployment_status" THEN status ELSE r[f]]

\* The result of the except branch (lines 124-138).
\* The log line holds str(e), kept as the name of the exception.
failed_with_exception(text, exc) ==
    WithStatus([HealingResult(text, NoReport) EXCEPT
                   !.healing_report.attempted = TRUE,
                   !.healing_report.logs = <<LogEntry("exception", exc)>>],
               "failed")

\* Lines 99-106 with the healed test placed first.
deployment_status_healed_first(r) ==
    IF r.healed THEN "healing_required"
    ELSE IF r.success THEN "ready"
    ELSE "failed"

\* Lines 99-106.
deployment_status(r) ==
    IF r.success THEN "ready"
    ELSE IF r.healed /\ r.final_valid THEN "ready"
    ELSE IF r.healed THEN "healing_required"
    ELSE "failed"

\* Lines 98-122 without the handler of lines 124-138.
heal_answered_unhandled(text, collaborators_ok, r) ==
    IF ~collaborators_ok THEN Raised("Exception")
    ELSE IF r.raised THEN r
    ELSE Returned(WithStatus(r.value, deployment_status(r.value)))

\* Lines 98-138: the answer once validate_and_heal has ended with outcome r.
heal_answered(text, collaborators_ok, r) ==
    IF ~collaborators_ok THEN Returned(failed_with_exception(text, "Exception"))
    ELSE IF r.raised THEN Returned(failed_with_exception(text, r.exc))
    ELSE Returned(WithStatus(r.value, deployment_status(r.value)))

\* AnkCommunicationService.validate_and_heal_config(config_yaml): the
\* deployed workloads are those of the state the orchestrator returns, by
\* name only; collaborators_ok is FALSE when get_complete_state or the
\* activity logger raises.
validate_and_heal_config(text, current, collaborators_ok) ==
    heal_answered(text, collaborators_ok,
                  validate_and_heal(text, TRUE,
                                    [i \in 1..Len(current) |->
                                        [name |-> current[i].name,
                                         runtimeConfig |-> NoRuntimeConfig]]))

---------------------------------------------------------------------------
(* Specification of the dependency validator's calls.                      *)

DepEdgeLists(m) ==
    UNION {[1..k -> [w : 1..Len(WorkloadNames), to : AllNames]] : k \in 0..m}

\* A well-formed document of n workloads whose dependencies mappings hold
\* the keys listed in el.
BuildDocument(n, el) ==
    Document([i \in 1..n |->
        LET s == SelectSeq(el, LAMBDA e : e.w = i)
            keys == DictKeys([j \in 1..Len(s) |-> s[j].to])
        IN [ValidEntry(WorkloadNames[i]) EXCEPT
               !.dkind = IF keys = <<>> THEN "absent" ELSE "dict",
               !.deps = keys]])

\* Deployed workloads: any of a name no document has and the last
\* document name.
RunningSets == SUBSET (MissingNames \cup {WorkloadNames[Len(WorkloadNames)]})

InitDeps ==
    /\ workloads = <<>>
    /\ capacity = DefaultCapacity
    /\ \E n \in 0..Len(WorkloadNames), el \in DepEdgeLists(MaxDepEdges) :
          config_yaml = BuildDocument(n, el)
    /\ \E names \in RunningSets :
          \E order \in [1..Cardinality(names) -> names] :
              /\ Range(order) = names
              /\ \A i, j \in DOMAIN order : i < j => order[i] # order[j]
              /\ current_workloads =
                     [i \in DOMAIN order |->
                         [name |-> order[i], runtimeConfig |-> NoRuntimeConfig]]
    /\ NoOtherArguments
    /\ pc = "start"
    /\ result = [ok |-> FALSE]

CallValidateDependencies ==
    /\ pc = "start"
    /\ pc' = "validate_dependencies"
    /\ result' = validate_dependencies(config_yaml,
                                       current_workload_names(current_workloads))
    /\ UNCHANGED <<args, history, now, previous>>

CallDetectCircularDependencies ==
    /\ pc = "start"
    /\ pc' = "detect_circular_dependencies"
    /\ result' = detect_circular_dependencies(get_workloads(config_yaml.root).value)
    /\ UNCHANGED <<args, history, now, previous>>

NextDeps == CallValidateDependencies \/ CallDetectCircularDependencies

SpecDeps == InitDeps /\ [][NextDeps]_vars

---------------------------------------------------------------------------
(* Specification of the validation suites' calls.                          *)

EntryModKinds ==
    {"no_runtime", "bad_runtime", "no_agent", "bad_policy", "no_runtimeConfig",
     "no_image", "port_8080", "port_8081", "name_with_space", "name_uppercase",
     "null_entry", "null_dependencies"}

DocModKinds == {"syntax_error", "null_root", "list_root", "no_workloads", "null_workloads"}

Mods ==
    [w : 1..Len(WorkloadNames), kind : EntryModKinds, to : {""}]
    \cup [w : 1..Len(WorkloadNames), kind : {"dependency", "listed_dependency"}, to : AllNames]
    \cup [w : {0}, kind : DocModKinds, to : {""}]

AddPort(rc, port) ==
    IF port \in Range(rc.ports) THEN rc
    ELSE RuntimeConfig(rc.image, SortedSeq(Range(rc.ports) \cup {port}))

AddDep(e, dkind, to) ==
    [e EXCEPT !.dkind = dkind,
              !.deps = IF to \in Range(@) THEN @ ELSE Append(@, to)]

ModEntry(e, m) ==
    CASE m.kind = "no_runtime" -> [e EXCEPT !.runtime = "absent"]
      [] m.kind = "bad_runtime" -> [e EXCEPT !.runtime = "docker-swarm"]
      [] m.kind = "no_agent" -> [e EXCEPT !.agent = "absent"]
      [] m.kind = "bad_policy" -> [e EXCEPT !.restartPolicy = "SOMETIMES"]
      [] m.kind = "no_runtimeConfig" -> [e EXCEPT !.runtimeConfig = NoRuntimeConfig]
      [] m.kind = "no_image" -> [e EXCEPT !.runtimeConfig.present = TRUE,
                                          !.runtimeConfig.image = FALSE]
      [] m.kind = "port_8080" -> [e EXCEPT !.runtimeConfig = AddPort(@, 8080)]
      [] m.kind = "port_8081" -> [e EXCEPT !.runtimeConfig = AddPort(@, 8081)]
      [] m.kind = "name_with_space" -> [e EXCEPT !.name = "my app"]
      [] m.kind = "name_uppercase" -> [e EXCEPT !.name = "App"]
      [] m.kind = "null_entry" -> [e EXCEPT !.kind = "null"]
      [] m.kind = "null_dependencies" -> [e EXCEPT !.dkind = "null", !.deps = <<>>]
      [] m.kind = "dependency" -> AddDep(e, "dict", m.to)
      [] m.kind = "listed_dependency" -> AddDep(e, "list", m.to)

\* At most one entry takes each of the two bad names, keys being unique.
ModDoc(text, m) ==
    IF m.w = 0
    THEN CASE m.kind = "syntax_error" -> [text EXCEPT !.syntax_ok = FALSE]
           [] m.kind = "null_root" -> [text EXCEPT !.root.kind = "null"]
           [] m.kind = "list_root" -> [text EXCEPT !.root.kind = "list"]
           [] m.kind = "no_workloads" -> [text EXCEPT !.root.has_workloads = FALSE]
           [] m.kind = "null_workloads" -> [text EXCEPT !.root.wkind = "null"]
    ELSE IF m.w > Len(text.root.entries) THEN text
    ELSE LET e == ModEntry(text.root.entries[m.w], m)
         IN IF \E i \in 1..Len(text.root.entries) :
                   i # m.w /\ text.root.entries[i].name = e.name
            THEN text
            ELSE [text EXCEPT !.root.entries[m.w] = e]

RECURSIVE ApplyMods(_, _)
ApplyMods(text, ms) ==
    IF ms = <<>> THEN text ELSE ApplyMods(ModDoc(text, Head(ms)), Tail(ms))

ModLists(k) == UNION {[1..j -> Mods] : j \in 0..k}

\* The deployed workloads a suite is built with.
CurrentWorkloads ==
    { <<>>, <<[name |-> "x", runtimeConfig |-> RuntimeConfig(TRUE, <<8080>>)]>> }

InitSuite ==
    /\ workloads = <<>>
    /\ capacity = DefaultCapacity
    /\ \E n \in 0..Len(WorkloadNames), ms \in ModLists(MaxMods) :
          config_yaml = ApplyMods(Document([i \in 1..n |-> ValidEntry(WorkloadNames[i])]), ms)
    /\ current_workloads \in CurrentWorkloads
    /\ NoOtherArguments
    /\ pc = "start"
    /\ result = [ok |-> FALSE]

\* PreDeploymentTester(current_workloads).run_validation_suite(config_yaml)
CallRunValidationSuite ==
    /\ pc = "start"
    /\ pc' = "run_validation_suite"
    /\ result' = run_validation_suite(config_yaml, current_workloads)
    /\ UNCHANGED <<args, history, now, previous>>

\* DeploymentValidator(current_workloads)._run_validation_suite(config_yaml)
CallDeploymentSuite ==
    /\ pc = "start"
    /\ pc' = "_run_validation_suite"
    /\ result' = _run_validation_suite(config_yaml, current_workloads)
    /\ UNCHANGED <<args, history, now, previous>>

NextSuite == CallRunValidationSuite \/ CallDeploymentSuite

SpecSuite == InitSuite /\ [][NextSuite]_vars

---------------------------------------------------------------------------
(* Claims about the dependency validator.                                  *)

DocEntries == config_yaml.root.entries

DocNames == EntryNames(DocEntries)

DocDeps(w) == Range(DocEntries[CHOOSE i \in 1..Len(DocEntries) : DocEntries[i].name = w].deps)

\* w lists d as a dependency and d is a workload of the document.
DocEdge(w, d) == w \in DocNames /\ d \in DocNames /\ d \in DocDeps(w)

DocHasCycle ==
    \E S \in SUBSET DocNames :
        /\ S # {}
        /\ \A w \in S : \E d \in S : DocEdge(w, d)

\* Workloads reachable from w along one or more edges.
RECURSIVE DocReachIn(_, _)
DocReachIn(w, k) ==
    IF k = 1 THEN {d \in DocNames : DocEdge(w, d)}
    ELSE LET r == DocReachIn(w, k - 1)
         IN r \cup {d \in DocNames : \E m \in r : DocEdge(m, d)}

DocReach(w) == DocReachIn(w, Len(WorkloadNames))

\* The workloads on a common cycle with w.
CycleMates(w) == {v \in DocReach(w) : w \in DocReach(v)}

\* No edge enters or leaves the cycles w is on.
Independent(w) ==
    \A v \in CycleMates(w), u \in DocNames \ CycleMates(w) :
        ~DocEdge(v, u) /\ ~DocEdge(u, v)

\* p closes back on its first node along dependency edges, without
\* passing a node twice.
ReportedCycle(p) ==
    /\ Len(p) >= 2
    /\ p[1] = p[Len(p)]
    /\ \A j \in 1..(Len(p) - 1) : DocEdge(p[j], p[j + 1])
    /\ Cardinality(Range(p)) = Len(p) - 1

HasError(errors, type, w) ==
    \E j \in 1..Len(errors) : errors[j].type = type /\ errors[j].workload = w

HasMissingError(errors, w, d) ==
    \E j \in 1..Len(errors) :
        /\ errors[j].type = "MISSING_DEPENDENCY"
        /\ errors[j].workload = w
        /\ errors[j].dependency = d

\* What C6 says of a returned (is_valid, errors).
DependencyReport(r) ==
    /\ \A w \in DocNames, d \in AllNames :
          HasMissingError(r.errors, w, d) <=>
              /\ d \in DocDeps(w)
              /\ d \notin DocNames
              /\ d \notin current_workload_names(current_workloads)
    /\ \A w \in DocNames :
          HasError(r.errors, "SELF_DEPENDENCY", w) <=> w \in DocDeps(w)
    /\ r.is_valid = TRUE <=>
          ~\E j \in 1..Len(r.errors) :
              r.errors[j].type \in {"SELF_DEPENDENCY", "MISSING_DEPENDENCY",
                                    "CIRCULAR_DEPENDENCY"}

\* C6: for every document and running set validate_dependencies reports
\* MISSING_DEPENDENCY for (w, d) exactly when d is neither a workload of the
\* document nor running, SELF_DEPENDENCY for w exactly when w lists itself,
\* and is_valid exactly when it reports no self, missing or circular
\* dependency error.
C6_DependencyErrors ==
    pc = "validate_dependencies" =>
        /\ ~result.raised
        /\ DependencyReport(result.value)

\* What C7 says of a returned (has_cycles, cycles).
CycleReport(r) ==
    /\ r.has_cycles = DocHasCycle
    /\ \A j \in 1..Len(r.cycles) : ReportedCycle(r.cycles[j])
    /\ \A w \in DocNames :
          (w \in DocReach(w) /\ Independent(w)) =>
              \E j \in 1..Len(r.cycles) : Range(r.cycles[j]) \subseteq CycleMates(w)

\* C7: for every workloads graph detect_circular_dependencies returns, with
\* has_cycles true exactly when the in-document graph has a directed cycle;
\* every reported cycle is a path of dependency edges from a node back to
\* itself (three nodes give a path of length 4), and each independent cycle
\* is reported.
C7_DetectCycles ==
    pc = "detect_circular_dependencies" =>
        /\ ~result.raised
        /\ CycleReport(result.value)

---------------------------------------------------------------------------
(* Claims about the validation suites.                                     *)

SuiteReturned == pc \in {"run_validation_suite", "_run_validation_suite"}

\* The report has a status and a non-empty list of test results.
WellFormedReport(report) ==
    /\ report.overall_status \in {"PASSED", "FAILED"}
    /\ Len(report.tests) > 0
    /\ \A j \in 1..Len(report.tests) :
          report.tests[j].status \in {"PASSED", "FAILED", "SKIPPED"}

\* C8: a validation suite returns a well-formed report for any document
\* text: a failure raised inside a sub-check (schema, dependency, cycle,
\* conflict) never propagates out of run_validation_suite or
\* _run_validation_suite.
C8_SuiteAlwaysReports ==
    SuiteReturned =>
        /\ ~result.raised
        /\ WellFormedReport(result.value)

\* C9: in every report a validation suite returns, overall_status is
\* FAILED exactly when some test of the report has status FAILED, and
\* PASSED otherwise.
C9_OverallStatus ==
    (SuiteReturned /\ ~result.raised) =>
        /\ result.value.overall_status \in {"PASSED", "FAILED"}
        /\ result.value.overall_status = "FAILED" <=>
              CountStatus(result.value.tests, "FAILED") > 0

\* total_errors / total_warnings of a report: under summary in
\* run_validation_suite's, at the top in _run_validation_suite's.
Totals(report) ==
    IF pc = "run_validation_suite"
    THEN [errors |-> report.summary.total_errors, warnings |-> report.summary.total_warnings]
    ELSE [errors |-> report.total_errors, warnings |-> report.total_warnings]

\* C10: in every validation report total_errors is the number of ERROR
\* issues over all tests and total_warnings the number of WARNING issues
\* over all tests, also in the report of a text that does not parse.
C10_ExactTotals ==
    (SuiteReturned /\ ~result.raised) =>
        LET n == Len(result.value.tests)
        IN /\ Totals(result.value).errors = SumSeverity(result.value.tests, "ERROR", n)
           /\ Totals(result.value).warnings = SumSeverity(result.value.tests, "WARNING", n)


---------------------------------------------------------------------------
(* Specification of the conflict detector's calls.                         *)

\* Number of deployed workloads the conflict detector is built with.
MaxCurrent == 2

\* What _extract_ports returns for a runtimeConfig over the ports of the
\* model.
PortLists == { <<>>, <<8080>>, <<8081>>, <<8080, 8081>> }

\* Deployed workloads: one of a name no document has, one named like the
\* first workload of a document.
CurrentNames == MissingNames \cup {WorkloadNames[1]}

CurrentLists(k) ==
    UNION {[1..j -> [name : CurrentNames, ports : PortLists]] : j \in 0..k}

WithPorts(e, ports) == [e EXCEPT !.runtimeConfig = RuntimeConfig(TRUE, ports)]

InitConflicts ==
    /\ workloads = <<>>
    /\ capacity = DefaultCapacity
    /\ \E n \in 0..Len(WorkloadNames), pl \in [1..Len(WorkloadNames) -> PortLists],
          ms \in [1..1 -> [w : {0}, kind : DocModKinds, to : {""}]] \cup {<<>>} :
          config_yaml =
              ApplyMods(Document([i \in 1..n |-> WithPorts(ValidEntry(WorkloadNames[i]), pl[i])]),
                        ms)
    /\ \E cl \in CurrentLists(MaxCurrent) :
          current_workloads =
              [i \in 1..Len(cl) |->
                  [name |-> cl[i].name, runtimeConfig |-> RuntimeConfig(TRUE, cl[i].ports)]]
    /\ NoOtherArguments
    /\ pc = "start"
    /\ result = [ok |-> FALSE]

\* ResourceConflictDetector(current_workloads).detect_conflicts(config_yaml)
CallDetectConflicts ==
    /\ pc = "start"
    /\ pc' = "detect_conflicts"
    /\ result' = detect_conflicts(config_yaml, current_workloads)
    /\ UNCHANGED <<args, history, now, previous>>

\* ResourceConflictDetector(current_workloads)._check_port_conflicts(config)
\* on the parsed document, as a caller holding the parsed value does.
CallCheckPortConflicts ==
    /\ pc = "start"
    /\ config_yaml.syntax_ok
    /\ pc' = "_check_port_conflicts"
    /\ result' = _check_port_conflicts(config_yaml.root, current_workloads)
    /\ UNCHANGED <<args, history, now, previous>>

NextConflicts == CallDetectConflicts \/ CallCheckPortConflicts

SpecConflicts == InitConflicts /\ [][NextConflicts]_vars

---------------------------------------------------------------------------
(* Claims about the conflict detector.                                     *)

\* The document parses to a mapping whose workloads are mappings.
WellFormedDocument ==
    /\ config_yaml.syntax_ok
    /\ config_yaml.root.kind = "dict"
    /\ config_yaml.root.has_workloads => config_yaml.root.wkind = "dict"
    /\ \A i \in 1..Len(config_yaml.root.entries) :
           config_yaml.root.entries[i].kind = "dict"

NewWorkloads ==
    IF config_yaml.root.has_workloads THEN config_yaml.root.entries ELSE <<>>

Declares(rc, p) == \E j \in 1..Len(rc.maps) : rc.maps[j].host = p

\* The owner of host port p when the i-th new workload is processed: the
\* last deployed workload declaring it, then every new workload that
\* declared it while it was free or its own.
RECURSIVE Owner(_, _)
Owner(p, i) ==
    IF i = 0
    THEN LET holders == {j \in 1..Len(current_workloads) :
                            Declares(current_workloads[j].runtimeConfig, p)}
         IN IF holders = {} THEN "nobody"
            ELSE current_workloads[CHOOSE j \in holders : \A k \in holders : k <= j].name
    ELSE LET e == NewWorkloads[i]
             before == Owner(p, i - 1)
         IN IF Declares(e.runtimeConfig, p) /\ before \in {"nobody", e.name}
            THEN e.name ELSE before

Conflicts(i, p) ==
    /\ Declares(NewWorkloads[i].runtimeConfig, p)
    /\ Owner(p, i - 1) \notin {"nobody", NewWorkloads[i].name}

PortConflicts(errors) == {j \in 1..Len(errors) : errors[j].type = "PORT_CONFLICT"}

\* The PORT_CONFLICT errors are one per conflicting (workload, port), in
\* document order, each naming the workload and the owner of the port.
ReportsConflicts(errors) ==
    /\ \A i \in 1..Len(NewWorkloads), p \in Ports :
           Conflicts(i, p) <=>
               \E j \in PortConflicts(errors) :
                   /\ errors[j].workload = NewWorkloads[i].name
                   /\ errors[j].port = p
    /\ \A j \in PortConflicts(errors) :
           \E i \in 1..Len(NewWorkloads) :
               /\ errors[j].workload = NewWorkloads[i].name
               /\ Conflicts(i, errors[j].port)
               /\ errors[j].conflicting_workload = Owner(errors[j].port, i - 1)
               /\ errors[j].severity = "ERROR"
    /\ \A j, k \in PortConflicts(errors) :
           j < k =>
               /\ <<errors[j].workload, errors[j].port>> # <<errors[k].workload, errors[k].port>>
               /\ \E a, b \in 1..Len(NewWorkloads) :
                      /\ a <= b
                      /\ errors[j].workload = NewWorkloads[a].name
                      /\ errors[k].workload = NewWorkloads[b].name

---------------------------------------------------------------------------
(* Specification of the healing calls.                                     *)

\* Number of dependencies keys in a document handed to validate_and_heal.
MaxHealEdges == 3

\* Number of departures from a valid document in a document without
\* dependencies handed to validate_and_heal.
MaxHealMods == 2

\* Number of workloads of a document with such departures.
MaxHealWorkloads == 2

HealMods ==
    [w : 1..MaxHealWorkloads,
     kind : {"no_runtime", "bad_runtime", "no_agent", "bad_policy", "no_runtimeConfig",
             "name_with_space", "name_uppercase", "null_entry"},
     to : {""}]
    \cup [w : {0}, kind : {"syntax_error", "null_root", "no_workloads"}, to : {""}]

HealModLists(k) == UNION {[1..j -> HealMods] : j \in 0..k}

\* Documents with dependencies and no other departure, and documents
\* without dependencies and some departures.
HealDocuments ==
    {BuildDocument(n, el) : n \in 0..Len(WorkloadNames), el \in DepEdgeLists(MaxHealEdges)}
    \cup {ApplyMods(Document([i \in 1..n |-> ValidEntry(WorkloadNames[i])]), ms) :
              n \in 0..MaxHealWorkloads, ms \in HealModLists(MaxHealMods)}

\* A text the remediator could have emitted parses to a mapping with
\* workloads.
InitHeal ==
    /\ workloads = <<>>
    /\ capacity = DefaultCapacity
    /\ \E doc \in HealDocuments, dumped \in BOOLEAN :
          /\ dumped => doc.syntax_ok /\ doc.root.kind = "dict" /\ doc.root.has_workloads
          /\ config_yaml = Text(doc, dumped)
    /\ current_workloads \in CurrentWorkloads
    /\ auto_heal \in BOOLEAN
    /\ all_errors = <<>>
    /\ history = <<>>
    /\ now = 0
    /\ previous = [ok |-> FALSE]
    /\ pc = "start"
    /\ result = [ok |-> FALSE]

\* DeploymentValidator(current_workloads).validate_and_heal(config_yaml, auto_heal)
CallValidateAndHeal ==
    /\ pc = "start"
    /\ pc' = "validate_and_heal"
    /\ result' = validate_and_heal(config_yaml, auto_heal, current_workloads)
    /\ UNCHANGED <<args, history, now, previous>>

\* A second validate_and_heal, on the config the first one returned.
CallValidateAndHealAgain ==
    /\ pc = "validate_and_heal"
    /\ ~result.raised
    /\ pc' = "validate_and_heal_again"
    /\ previous' = result
    /\ result' = validate_and_heal(result.value.config, auto_heal, current_workloads)
    /\ UNCHANGED <<args, history, now>>

\* AnkCommunicationService.validate_and_heal_config(config_yaml)
CallValidateAndHealConfig ==
    /\ pc = "start"
    /\ auto_heal
    /\ pc' = "validate_and_heal_config"
    /\ \E collaborators_ok \in BOOLEAN :
          result' = validate_and_heal_config(config_yaml, current_workloads,
                                             collaborators_ok)
    /\ UNCHANGED <<args, history, now, previous>>

NextHeal == CallValidateAndHeal \/ CallValidateAndHealAgain \/ CallValidateAndHealConfig

SpecHeal == InitHeal /\ [][NextHeal]_vars

---------------------------------------------------------------------------
(* Claims about validate_and_heal.                                         *)

Healed == pc = "validate_and_heal" /\ ~result.raised

\* The entry of workload w in a document text.
EntryOf(text, w) ==
    text.root.entries[CHOOSE i \in 1..Len(text.root.entries) :
                          text.root.entries[i].name = w]

Running == current_workload_names(current_workloads)

\* Every entry of the document is free of the errors other than a missing
\* runtime or agent: its name, runtime and restartPolicy values are
\* allowed, its dependencies resolve, none is the workload itself.
NoOtherErrors ==
    /\ WellFormedDocument
    /\ config_yaml.root.has_workloads
    /\ \A i \in 1..Len(DocEntries) :
           LET e == DocEntries[i]
           IN /\ e.name # ""
              /\ ~contains_space(e.name)
              /\ e.runtime \in VALID_RUNTIMES \cup {"absent"}
              /\ e.restartPolicy \in VALID_RESTART_POLICIES \cup {"absent"}
              /\ e.dkind \in {"absent", "dict"}
              /\ \A d \in Range(e.deps) : d # e.name /\ d \in DocNames \cup Running

MissingField(e) == e.runtime = "absent" \/ e.agent = "absent"

NoErrorIn(report) == _extract_errors_from_report(report) = <<>>

\* The remediator was not called and the text is the one handed in.
NotHealed(r) ==
    /\ ~r.healing_report.attempted
    /\ ~r.healed
    /\ r.config = config_yaml

\* C12: whenever validate_and_heal does not heal (the document has no
\* errors, or it has errors and auto_heal is false) the remediator is not
\* invoked, healed is false, config is the input text; original_valid,
\* final_valid and success are all true without errors, final_valid and
\* success false with errors.
C12_NoHealing ==
    pc = "validate_and_heal" =>
        /\ ~auto_heal =>
               /\ ~result.raised
               /\ NotHealed(result.value)
               /\ result.value.original_valid <=> NoErrorIn(result.value.validation_report)
               /\ result.value.final_valid <=> result.value.original_valid
               /\ result.value.success <=> result.value.original_valid
        /\ (auto_heal /\ ~result.raised /\ NoErrorIn(result.value.validation_report)) =>
               /\ NotHealed(result.value)
               /\ result.value.original_valid
               /\ result.value.final_valid
               /\ result.value.success

StatusCalls == {"validate_and_heal", "validate_and_heal_again", "validate_and_heal_config"}

\* C13: every HealingResult has success = final_valid, and its
\* deployment_status is ready exactly when success, healing_required
\* exactly when healed and not final_valid, failed otherwise.
C13_DeploymentStatus ==
    /\ (pc \in StatusCalls /\ ~result.raised) =>
           result.value.success = result.value.final_valid
    /\ pc = "validate_and_heal_config" =>
           /\ ~result.raised
           /\ result.value.deployment_status \in {"ready", "healing_required", "failed"}
           /\ result.value.deployment_status = "ready" <=> result.value.success
           /\ result.value.deployment_status = "healing_required" <=>
                  (result.value.healed /\ ~result.value.final_valid)

\* Results of each status: healed and valid, healed and still invalid, and
\* the result written for an exception.
C13_Witness ==
    /\ pc = "validate_and_heal_config"
    /\ result.value.deployment_status = "healing_required"
    /\ result.value.healed
    /\ result.value.healing_report.remaining_issues # <<>>

\* C14: for a document whose only errors are workloads missing runtime
\* and/or agent, one validate_and_heal pass gives healed and final_valid,
\* every such workload has runtime podman and agent agent_A (fields that
\* were present keep their value), and the log has at least 2 entries when
\* a workload missed both.
C14_HealsMissingFields ==
    (pc = "validate_and_heal" /\ auto_heal /\ NoOtherErrors /\ ~DocHasCycle
     /\ \E i \in 1..Len(DocEntries) : MissingField(DocEntries[i])) =>
        /\ ~result.raised
        /\ result.value.healed
        /\ result.value.final_valid
        /\ EntryNames(result.value.config.root.entries) = DocNames
        /\ \A i \in 1..Len(DocEntries) :
               LET e == DocEntries[i]
                   h == EntryOf(result.value.config, e.name)
               IN /\ h.runtime = (IF e.runtime = "absent" THEN "podman" ELSE e.runtime)
                  /\ h.agent = (IF e.agent = "absent" THEN "agent_A" ELSE e.agent)
                  /\ (e.runtime = "absent" /\ e.agent = "absent") =>
                         Len(result.value.healing_report.logs) >= 2

\* A workload missing both fields is healed, beside a valid one.
C14_Witness ==
    /\ pc = "validate_and_heal"
    /\ auto_heal
    /\ NoOtherErrors
    /\ ~DocHasCycle
    /\ ~result.raised
    /\ Len(DocEntries) = 2
    /\ \E i \in 1..Len(DocEntries) :
           /\ DocEntries[i].runtime = "absent" /\ DocEntries[i].agent = "absent"
           /\ EntryOf(result.value.config, DocEntries[i].name).runtime = "podman"
           /\ EntryOf(result.value.config, DocEntries[i].name).agent = "agent_A"
    /\ result.value.healed
    /\ result.value.final_valid

\* C15: healing is idempotent: validate_and_heal on the config a first
\* validate_and_heal returned gives healed = false and the same config.
C15_HealingIdempotent ==
    (pc = "validate_and_heal_again" /\ auto_heal) =>
        /\ ~result.raised
        /\ ~result.value.healed
        /\ result.value.config = previous.value.config

\* The validation validate_and_heal ran last: the one of the healed config
\* when there is one.
LastValidation(r) == IF r.healed THEN r.healed_validation ELSE r.validation_report

TestFailed(report, name) ==
    \E j \in 1..Len(report.tests) :
        report.tests[j].name = name /\ report.tests[j].status = "FAILED"

\* C18: a dependency cycle among two or more distinct workloads is not
\* auto-healed: for a document whose only errors are such a cycle,
\* validate_and_heal returns final_valid = false and success = false, and
\* the validation it ran last has a FAILED Circular Dependency Check.
C18_CycleNotHealed ==
    (pc = "validate_and_heal" /\ auto_heal /\ NoOtherErrors /\ DocHasCycle
     /\ \A i \in 1..Len(DocEntries) : ~MissingField(DocEntries[i])) =>
        /\ ~result.raised
        /\ ~result.value.final_valid
        /\ ~result.value.success
        /\ TestFailed(LastValidation(result.value), "Circular Dependency Check")

---------------------------------------------------------------------------
(* Specification of the remediator's calls, on the issues the validators   *)
(* report for the document.                                                *)

\* Number of dependencies keys in a document handed to auto_fix.
MaxFixEdges == 3

\* Number of workloads of a document with port mappings handed to auto_fix.
MaxFixWorkloads == 2

\* Port mappings of a runtimeConfig, in text order.
PortMapLists ==
    { <<>>,
      <<PortMap(8080, 80)>>,
      <<PortMap(8080, 8080)>>,
      <<PortMap(8081, 80)>>,
      <<PortMap(8080, 80), PortMap(8081, 8080)>> }

RuntimeConfigOf(maps) ==
    [present |-> TRUE, image |-> TRUE, ports |-> _extract_ports(maps), maps |-> maps]

\* Documents with dependencies, and documents with port mappings.
FixDocuments ==
    {BuildDocument(n, el) : n \in 0..Len(WorkloadNames), el \in DepEdgeLists(MaxFixEdges)}
    \cup {Document([i \in 1..n |->
                       [ValidEntry(WorkloadNames[i]) EXCEPT
                           !.runtimeConfig = RuntimeConfigOf(pm[i])]]) :
              n \in 0..MaxFixWorkloads, pm \in [1..MaxFixWorkloads -> PortMapLists]}

FixCurrentWorkloads ==
    { <<>> } \cup
    { <<[name |-> "x", runtimeConfig |-> RuntimeConfigOf(maps)]>> :
          maps \in {<<PortMap(8080, 80)>>, <<PortMap(8080, 80), PortMap(8081, 80)>>} }

\* The issues a caller holds for a document: the errors of the validation
\* suite (as validate_and_heal extracts them), of the dependency validator
\* or of the conflict detector.
IssuesFor(text, current) ==
    LET suite == _run_validation_suite(text, current)
        dep == validate_dependencies(text, current_workload_names(current))
        con == detect_conflicts(text, current)
    IN (IF suite.raised THEN {} ELSE {_extract_errors_from_report(suite.value)})
       \cup (IF dep.raised THEN {} ELSE {dep.value.errors})
       \cup (IF con.raised THEN {} ELSE {con.value.issues})

InitFix ==
    /\ workloads = <<>>
    /\ capacity = DefaultCapacity
    /\ \E doc \in FixDocuments : config_yaml = Text(doc, FALSE)
    /\ current_workloads \in FixCurrentWorkloads
    /\ auto_heal = TRUE
    /\ all_errors \in IssuesFor(config_yaml, current_workloads)
    /\ history = <<>>
    /\ now = 0
    /\ previous = [ok |-> FALSE]
    /\ pc = "start"
    /\ result = [ok |-> FALSE]

\* ConfigurationRemediator().auto_fix(config_yaml, all_errors)
CallAutoFix ==
    /\ pc = "start"
    /\ pc' = "auto_fix"
    /\ result' = auto_fix(config_yaml, all_errors)
    /\ UNCHANGED <<args, history, now, previous>>

\* DependencyValidator(names).validate_dependencies on the text auto_fix
\* returned.
CallValidateFixed ==
    /\ pc = "auto_fix"
    /\ ~result.raised
    /\ pc' = "validate_fixed"
    /\ previous' = result
    /\ result' = validate_dependencies(result.value.config,
                                       current_workload_names(current_workloads))
    /\ UNCHANGED <<args, history, now>>

NextFix == CallAutoFix \/ CallValidateFixed

SpecFix == InitFix /\ [][NextFix]_vars

---------------------------------------------------------------------------
(* Claims about auto_fix.                                                  *)

IssuesOfKind(type) ==
    {j \in 1..Len(all_errors) : issue_get(all_errors[j], "type", "") = type}

\* The entries of the text auto_fix returned.
FixedEntries ==
    IF pc = "auto_fix" THEN result.value.config.root.entries
    ELSE previous.value.config.root.entries

FixedEntry(w) == FixedEntries[CHOOSE i \in 1..Len(FixedEntries) : FixedEntries[i].name = w]

\* C16: given a MISSING_DEPENDENCY error of the dependency validator for
\* workload w and dependency d, auto_fix removes d from w's dependencies,
\* removes the field when the mapping is left empty, and validating the
\* returned text reports no missing dependency any more.
C16_RemovesMissingDependency ==
    /\ pc = "auto_fix" =>
           \A j \in IssuesOfKind("MISSING_DEPENDENCY") :
               /\ ~result.raised
               /\ all_errors[j].workload \in EntryNames(FixedEntries)
               /\ all_errors[j].dependency
                      \notin Range(FixedEntry(all_errors[j].workload).deps)
               /\ FixedEntry(all_errors[j].workload).deps = <<>> =>
                      FixedEntry(all_errors[j].workload).dkind = "absent"
    /\ (pc = "validate_fixed" /\ IssuesOfKind("MISSING_DEPENDENCY") # {}) =>
           /\ ~result.raised
           /\ \A k \in 1..Len(result.value.errors) :
                  result.value.errors[k].type # "MISSING_DEPENDENCY"

\* The cycle paths the CIRCULAR_DEPENDENCY errors carry.
CyclePaths ==
    {all_errors[j].cycle : j \in {k \in IssuesOfKind("CIRCULAR_DEPENDENCY") :
                                       "cycle" \in DOMAIN all_errors[k]}}

\* The entries of the document with the dependency src -> dst removed and
\* an emptied dependencies field dropped.
WithoutEdge(entries, src, dst) ==
    [i \in 1..Len(entries) |->
        IF entries[i].name = src
        THEN [entries[i] EXCEPT
                 !.deps = Without(@, dst),
                 !.dkind = IF Without(entries[i].deps, dst) = <<>> THEN "absent" ELSE @]
        ELSE entries[i]]

\* C17: given a CIRCULAR_DEPENDENCY error carrying a cycle path, auto_fix
\* removes exactly one dependency edge, from the first node of the path to
\* the second, and leaves every other edge as it was; when the only error
\* is a single two-node cycle, validating the returned text finds no error.
C17_BreaksCycle ==
    IssuesOfKind("CIRCULAR_DEPENDENCY") = DOMAIN all_errors =>
        \A path \in CyclePaths :
            CyclePaths = {path} =>
                /\ pc = "auto_fix" =>
                       /\ ~result.raised
                       /\ FixedEntries = WithoutEdge(DocEntries, path[1], path[2])
                /\ (pc = "validate_fixed" /\ Len(path) = 3) =>
                       /\ ~result.raised
                       /\ result.value.is_valid

\* C19: given a PORT_CONFLICT error for workload w and host port p,
\* auto_fix changes w's host port p to p + 1 in its runtimeConfig and
\* nothing else: container ports and the other workloads are as they were,
\* and w no longer declares host port p.
C19_MovesHostPort ==
    (pc = "auto_fix" /\ Len(all_errors) = 1 /\ IssuesOfKind("PORT_CONFLICT") = {1}) =>
        LET w == all_errors[1].workload
            p == all_errors[1].port
            before == EntryOf(config_yaml, w).runtimeConfig.maps
        IN /\ ~result.raised
           /\ EntryNames(FixedEntries) = DocNames
           /\ FixedEntry(w).runtimeConfig.maps =
                  [j \in 1..Len(before) |->
                      PortMap(IF before[j].host = p THEN p + 1 ELSE before[j].host,
                              before[j].container)]
           /\ ~Declares(FixedEntry(w).runtimeConfig, p)
           /\ \A i \in 1..Len(DocEntries) :
                  DocEntries[i].name # w => FixedEntry(DocEntries[i].name) = DocEntries[i]

---------------------------------------------------------------------------
(* The snapshot store (simulation/rollback_manager.py).  The history       *)
(* directory is the sequence of its files in the order of their st_mtime,  *)
(* the newest last; a file is a record of its name and its content.  The   *)
(* clock is counted in milliseconds from the first call.                   *)

MAX_SNAPSHOTS == 50

\* Largest time of a call.
MaxNow == 2

\* The documents saved: cfg as a sequence of its (key, value) items.
Configs ==
    { << <<"workloads", "a">>, <<"clusterCapacity", "small">> >>,
      << <<"clusterCapacity", "small">>, <<"workloads", "a">> >>,
      << <<"workloads", "b">>, <<"clusterCapacity", "small">> >> }

\* json.dumps(cfg, sort_keys=True): the items whatever their order.
json_dumps_sorted(cfg) == Range(cfg)

\* hashlib.sha256(...).hexdigest(), taken as free of collisions.
sha256(text) == text

_snapshot_metadata(cfg, t) == [ts |-> t, sha256 |-> sha256(json_dumps_sorted(cfg))]

\* name = f"snapshot_{meta['ts']}.json" unless the caller gives one.
DefaultName(ts) == <<"snapshot", ts>>

GivenNames == {<<"manual", 0>>}

\* The temporary file of _atomic_write_json before os.replace: it is
\* created in the history directory and is not complete JSON until the
\* flush.
PartialFile(t) ==
    [name |-> <<"tmp", t>>,
     content |-> [readable |-> FALSE, _meta |-> [ts |-> t, sha256 |-> {}], config |-> <<>>]]

\* latest_snapshot(base_dir) of an empty directory: None.
NoFile == [PartialFile(0) EXCEPT !.name = <<"None", 0>>]

SnapshotFile(name, meta, cfg) ==
    [name |-> name, content |-> [readable |-> TRUE, _meta |-> meta, config |-> cfg]]

\* os.replace(tmpname, path): the file of that name is replaced, and the
\* file written last is the newest.
_atomic_write_json(files, file) ==
    Append(SelectSeq(files, LAMBDA f : f.name # file.name), file)

\* list_snapshots with the sort left out.
list_snapshots_unsorted(files) == files

\* list_snapshots(base_dir): every file of the directory, the newest first.
list_snapshots(files) == Reverse(files)

latest_snapshot(files) == IF files = <<>> THEN NoFile ELSE list_snapshots(files)[1]

\* load_snapshot(path): json.load raises on a file that is not JSON.
load_snapshot(file) ==
    IF file.content.readable THEN Returned(file.content) ELSE Raised("JSONDecodeError")

\* Lines 42-49 with the comparison left out.
is_duplicate_never(latest, meta) == FALSE

\* Lines 42-49: an exception of load_snapshot is swallowed.
is_duplicate(latest, meta) ==
    /\ ~load_snapshot(latest).raised
    /\ load_snapshot(latest).value._meta.sha256 = meta.sha256

\* _prune_history keeping the oldest files.
_prune_history_oldest(files, keep) ==
    IF Len(files) <= keep THEN files ELSE SubSeq(files, 1, keep)

\* _prune_history(hist, keep): the files after the first keep of the
\* listing, newest first, are unlinked.
_prune_history(files, keep) ==
    IF Len(files) <= keep THEN files
    ELSE SubSeq(files, Len(files) - keep + 1, Len(files))

\* A value or None.
None == [is_none |-> TRUE, value |-> <<>>]

Some(v) == [is_none |-> FALSE, value |-> v]

\* rollback_to_latest(base_dir)
rollback_to_latest(files) ==
    IF latest_snapshot(files) = NoFile THEN Returned(None)
    ELSE IF load_snapshot(latest_snapshot(files)).raised
    THEN load_snapshot(latest_snapshot(files))
    ELSE Returned(Some(load_snapshot(latest_snapshot(files)).value.config))

\* A directory of n snapshots saved one millisecond apart before the first
\* call, of alternating content.
SavedBefore(n) ==
    [j \in 1..n |->
        LET i == n + 1 - j
            cfg == IF i % 2 = 0
                   THEN << <<"workloads", "a">>, <<"clusterCapacity", "small">> >>
                   ELSE << <<"workloads", "b">>, <<"clusterCapacity", "small">> >>
        IN SnapshotFile(DefaultName(0 - i), _snapshot_metadata(cfg, 0 - i), cfg)]

InitSnap ==
    /\ workloads = <<>>
    /\ capacity = DefaultCapacity
    /\ config_yaml = Text(Document(<<>>), FALSE)
    /\ current_workloads = <<>>
    /\ auto_heal = TRUE
    /\ all_errors = <<>>
    /\ \E n \in {0, 1, MAX_SNAPSHOTS - 1, MAX_SNAPSHOTS} : history = SavedBefore(n)
    /\ now = 0
    /\ previous = [ok |-> FALSE]
    /\ pc = "start"
    /\ result = [ok |-> FALSE]

\* save_snapshot(cfg, base_dir, name) at time t: the directory it leaves
\* and the path it returns.
save_snapshot(files, cfg, name, t) ==
    IF latest_snapshot(files) # NoFile
       /\ is_duplicate(latest_snapshot(files), _snapshot_metadata(cfg, t))
    THEN [history |-> files, path |-> latest_snapshot(files).name]
    ELSE [history |-> _prune_history(
                          _atomic_write_json(
                              files,
                              SnapshotFile(IF name = <<"None", 0>> THEN DefaultName(t)
                                           ELSE name,
                                           _snapshot_metadata(cfg, t), cfg)),
                          MAX_SNAPSHOTS),
          path |-> IF name = <<"None", 0>> THEN DefaultName(t) ELSE name]

\* A call of save_snapshot, at the time of the call before or later;
\* previous keeps the document, the directory the call found and the path
\* it returned.
CallSaveSnapshot ==
    /\ pc \in {"start", "save_snapshot"}
    /\ pc' = "save_snapshot"
    /\ \E t \in now..MaxNow : now' = t
    /\ \E cfg \in Configs, name \in {<<"None", 0>>} \cup GivenNames :
           /\ history' = save_snapshot(history, cfg, name, now').history
           /\ result' = save_snapshot(history, cfg, name, now').path
           /\ previous' = [cfg |-> cfg, latest |-> latest_snapshot(history),
                           history |-> history,
                           path |-> save_snapshot(history, cfg, name, now').path]
    /\ UNCHANGED args

\* latest_snapshot(base_dir)
CallLatestSnapshot ==
    /\ pc \in {"start", "save_snapshot"}
    /\ pc' = "latest_snapshot"
    /\ result' = latest_snapshot(history).name
    /\ UNCHANGED <<args, history, now, previous>>

\* load_snapshot(path) of the path latest_snapshot returned.
CallLoadSnapshot ==
    /\ pc = "latest_snapshot"
    /\ result # NoFile.name
    /\ pc' = "load_snapshot"
    /\ result' = load_snapshot(latest_snapshot(history))
    /\ UNCHANGED <<args, history, now, previous>>

\* rollback_to_latest(base_dir)
CallRollbackToLatest ==
    /\ pc \in {"start", "save_snapshot"}
    /\ pc' = "rollback_to_latest"
    /\ result' = rollback_to_latest(history)
    /\ UNCHANGED <<args, history, now, previous>>

NextSnap ==
    CallSaveSnapshot \/ CallLatestSnapshot \/ CallLoadSnapshot \/ CallRollbackToLatest

SpecSnap == InitSnap /\ [][NextSnap]_vars

\* The call before was a save_snapshot.
AfterSave == previous # [ok |-> FALSE]

\* C20: a call of save_snapshot with a document whose content hash is the
\* one recorded in the most recent snapshot writes no file, leaves the
\* history directory as it was and returns that snapshot's path.
C20_SaveSnapshotIdempotent ==
    (/\ pc = "save_snapshot"
     /\ previous.latest # NoFile
     /\ previous.latest.content.readable
     /\ previous.latest.content._meta.sha256 = sha256(json_dumps_sorted(previous.cfg)))
    => /\ history = previous.history
       /\ result = previous.latest.name

\* A document with its keys in another order is saved at a later time than
\* the most recent snapshot, which holds the same content, and nothing is
\* written.
C20_Witness ==
    /\ pc = "save_snapshot"
    /\ previous.latest # NoFile
    /\ previous.latest.content.readable
    /\ previous.latest.content._meta.sha256 = sha256(json_dumps_sorted(previous.cfg))
    /\ previous.latest.content.config # previous.cfg
    /\ previous.latest.content._meta.ts < now
    /\ history = previous.history
    /\ result = previous.latest.name

\* The places in before of the files that are in after under the same
\* name no more.
Removed(before, after) ==
    LET kept == {after[k].name : k \in 1..Len(after)}
    IN {i \in 1..Len(before) : before[i].name \notin kept}

\* The places of removed only hold the oldest files, the file of the name
\* written aside.
OnlyOldest(before, removed, written) ==
    \A i \in removed : \A j \in 1..(i - 1) : j \in removed \/ before[j].name = written

\* C21: after every save_snapshot the history directory holds at most
\* MAX_SNAPSHOTS snapshots, and the files pruning removed are the oldest of
\* the directory, never the snapshot just written.
C21_PruneKeepsNewest ==
    pc = "save_snapshot" =>
        /\ Len(history) <= MAX_SNAPSHOTS
        /\ history # <<>>
        /\ history[Len(history)].name = result
        /\ json_dumps_sorted(history[Len(history)].content.config)
               = json_dumps_sorted(previous.cfg)
        /\ OnlyOldest(previous.history, Removed(previous.history, history), result)

\* A save into a full directory writes a file and the oldest one goes.
C21_Witness ==
    /\ pc = "save_snapshot"
    /\ Len(previous.history) = MAX_SNAPSHOTS
    /\ Len(history) = MAX_SNAPSHOTS
    /\ Removed(previous.history, history) = {1}
    /\ history[Len(history)].name = result
    /\ result \notin {f.name : f \in Range(previous.history)}

---------------------------------------------------------------------------
(* A save_snapshot call step by step, next to a reader of the same         *)
(* directory.  pc holds the place of the writer and of the reader, result  *)
(* what the reader's last step gave, previous the writer's locals.         *)

FileNames(files) == {files[k].name : k \in 1..Len(files)}

FileNamed(files, name) == CHOOSE f \in Range(files) : f.name = name

InitRace ==
    /\ workloads = <<>>
    /\ capacity = DefaultCapacity
    /\ config_yaml = Text(Document(<<>>), FALSE)
    /\ current_workloads = <<>>
    /\ auto_heal = TRUE
    /\ all_errors = <<>>
    /\ \E n \in {0, 1, MAX_SNAPSHOTS} : history = SavedBefore(n)
    /\ now = 0
    /\ previous = [ok |-> FALSE]
    /\ pc = [writer |-> "start", reader |-> "start"]
    /\ result = [ok |-> FALSE]

\* save_snapshot, lines 35-49 and line 27: the comparison with the latest
\* snapshot, then NamedTemporaryFile(dir=path.parent) creates an empty
\* file in the history directory.
SaveCreateTemp ==
    /\ pc.writer = "start"
    /\ \E cfg \in Configs, name \in {<<"None", 0>>} \cup GivenNames :
           /\ previous' = [cfg |-> cfg,
                           dest |-> IF name = <<"None", 0>> THEN DefaultName(now)
                                    ELSE name,
                           tmpname |-> PartialFile(now).name]
           /\ IF latest_snapshot(history) # NoFile
                 /\ is_duplicate(latest_snapshot(history), _snapshot_metadata(cfg, now))
              THEN /\ history' = history
                   /\ pc' = [pc EXCEPT !.writer = "done"]
              ELSE /\ history' = Append(history, PartialFile(now))
                   /\ pc' = [pc EXCEPT !.writer = "created"]
    /\ UNCHANGED <<args, now, result>>

\* _atomic_write_json, lines 28-31: json.dump, flush and fsync complete the
\* temporary file.
SaveFlushTemp ==
    /\ pc.writer = "created"
    /\ history' = _atomic_write_json(
                      history,
                      SnapshotFile(previous.tmpname,
                                   _snapshot_metadata(previous.cfg, now), previous.cfg))
    /\ pc' = [pc EXCEPT !.writer = "flushed"]
    /\ UNCHANGED <<args, now, previous, result>>

\* os.replace(tmpname, path), line 32: the temporary file takes the name of
\* the destination and keeps its modification time.
SaveReplace ==
    /\ pc.writer = "flushed"
    /\ history' = [k \in 1..Len(SelectSeq(history, LAMBDA f : f.name # previous.dest)) |->
                      LET f == SelectSeq(history, LAMBDA g : g.name # previous.dest)[k]
                      IN IF f.name = previous.tmpname
                         THEN [f EXCEPT !.name = previous.dest] ELSE f]
    /\ pc' = [pc EXCEPT !.writer = "replaced"]
    /\ UNCHANGED <<args, now, previous, result>>

\* save_snapshot, lines 53-54
SavePrune ==
    /\ pc.writer = "replaced"
    /\ history' = _prune_history(history, MAX_SNAPSHOTS)
    /\ pc' = [pc EXCEPT !.writer = "done"]
    /\ UNCHANGED <<args, now, previous, result>>

\* list_snapshots, line 58: hist.iterdir() reads the names of the directory.
ReadIterdir ==
    /\ pc.reader \in {"start", "latest_snapshot", "load_snapshot"}
    /\ result' = Returned(FileNames(history))
    /\ pc' = [pc EXCEPT !.reader = "iterdir"]
    /\ UNCHANGED <<args, now, previous, history>>

\* list_snapshots and latest_snapshot, lines 58-59 and 66-67: the names
\* read are sorted by the st_mtime of their files, and stat raises for a
\* name that is in the directory no more.
ReadLatestSnapshot ==
    /\ pc.reader = "iterdir"
    /\ result' =
           IF result.value \ FileNames(history) # {}
           THEN Raised("FileNotFoundError")
           ELSE Returned(latest_snapshot(
                             SelectSeq(history, LAMBDA f : f.name \in result.value)).name)
    /\ pc' = [pc EXCEPT !.reader = "latest_snapshot"]
    /\ UNCHANGED <<args, now, previous, history>>

\* load_snapshot, lines 61-63, of the path latest_snapshot returned.
ReadLoadSnapshot ==
    /\ pc.reader = "latest_snapshot"
    /\ ~result.raised
    /\ result.value # NoFile.name
    /\ result' =
           IF result.value \notin FileNames(history)
           THEN Raised("FileNotFoundError")
           ELSE load_snapshot(FileNamed(history, result.value))
    /\ pc' = [pc EXCEPT !.reader = "load_snapshot"]
    /\ UNCHANGED <<args, now, previous, history>>

NextRace ==
    \/ SaveCreateTemp
    \/ SaveFlushTemp
    \/ SaveReplace
    \/ SavePrune
    \/ ReadIterdir
    \/ ReadLatestSnapshot
    \/ ReadLoadSnapshot

SpecRace == InitRace /\ [][NextRace]_vars

\* C22: whatever the interleaving of a save_snapshot with a reader,
\* latest_snapshot returns the path of a completed snapshot (or None for
\* an empty directory), never the path of the writer's temporary file, and
\* loading the path it returned yields a complete snapshot.
C22_ReaderSeesCompleteSnapshots ==
    /\ pc.reader = "latest_snapshot" =>
           /\ ~result.raised
           /\ result.value # PartialFile(now).name
    /\ pc.reader = "load_snapshot" =>
           /\ ~result.raised
           /\ result.value.readable

---------------------------------------------------------------------------
\* The places of the started events of a timeline.
StartedEvents(tl) == {i \in 1..Len(tl) : tl[i].event = "started"}

\* C28: in the admission loop of app/simulation, with demands that are not
\* negative, the usage the started events report never decreases and never
\* exceeds the capacity in cpu or memory, and a started event's
\* used_cpu_after and used_mem_after are the used_cpu_before and
\* used_mem_before of the same workload's starting event plus that
\* workload's demand.
C28_UsageAccounting ==
    Sim =>
        LET tl == result.timeline
        IN \A i \in StartedEvents(tl) :
               /\ i > 1
               /\ tl[i - 1].event = "starting"
               /\ tl[i - 1].service = tl[i].service
               /\ tl[i].used_cpu_after
                      = tl[i - 1].used_cpu_before + ResourcesOf(workloads, tl[i].service).cpu
               /\ tl[i].used_mem_after
                      = tl[i - 1].used_mem_before
                        + ResourcesOf(workloads, tl[i].service).memory
               /\ tl[i].used_cpu_after <= capacity.cpu
               /\ tl[i].used_mem_after <= capacity.memory
               /\ \A j \in StartedEvents(tl) :
                      j < i => /\ tl[j].used_cpu_after <= tl[i].used_cpu_after
                               /\ tl[j].used_mem_after <= tl[i].used_mem_after

\* Two workloads with a demand were admitted one after the other and the
\* second one filled the cpu capacity.
C28_Witness ==
    /\ Sim
    /\ Cardinality(StartedEvents(result.timeline)) >= 2
    /\ \E i, j \in StartedEvents(result.timeline) :
           /\ j < i
           /\ result.timeline[j].used_cpu_after > 0
           /\ result.timeline[j].used_cpu_after < result.timeline[i].used_cpu_after
           /\ result.timeline[i].used_cpu_after = capacity.cpu

---------------------------------------------------------------------------
(* app/deployment/deployment_simulator.py.  Its topo_sort reads depends_on *)
(* alone and returns (ok, order, cycles) without a missing list.           *)

\* The closure state of topo_sort: the nodes with visited[node] = 1 and
\* = 2, result, cycles.
DeploymentTopoInit == [visiting |-> {}, done |-> {}, result |-> <<>>, cycles |-> <<>>]

\* dfs(node, stack), lines 26-47; its return value is discarded.
RECURSIVE deployment_dfs(_, _, _, _), deployment_dfs_loop(_, _, _, _)
deployment_dfs(wls, st, node, stack) ==
    IF node \notin Keys(wls)
    THEN [st EXCEPT !.done = @ \cup {node}, !.result = Append(@, node)]
    ELSE IF node \in st.visiting
         THEN [st EXCEPT !.cycles = Append(@, Append(stack, node))]
    ELSE IF node \in st.done THEN st
    ELSE LET st1 == [st EXCEPT !.visiting = @ \cup {node}]
             st2 == deployment_dfs_loop(wls, st1, Get(wls, node).depends_on,
                                        Append(stack, node))
         IN [st2 EXCEPT !.visiting = @ \ {node}, !.done = @ \cup {node},
                        !.result = Append(@, node)]

\* for d in deps: dfs(d, stack + [node])
deployment_dfs_loop(wls, st, deps, stack) ==
    IF deps = <<>> THEN st
    ELSE deployment_dfs_loop(wls, deployment_dfs(wls, st, Head(deps), stack),
                             Tail(deps), stack)

\* for w in workloads.keys(): if visited.get(w) is None: dfs(w, [])
RECURSIVE deployment_visit_all(_, _, _)
deployment_visit_all(wls, st, i) ==
    IF i > Len(wls) THEN st
    ELSE deployment_visit_all(
             wls,
             IF wls[i].name \notin st.visiting \cup st.done
             THEN deployment_dfs(wls, st, wls[i].name, <<>>) ELSE st,
             i + 1)

\* topo_sort, lines 17-55: (ok, order, cycles); the order is
\* list(reversed(result)).
deployment_topo_sort(wls) ==
    LET st == deployment_visit_all(wls, DeploymentTopoInit, 1)
    IN IF st.cycles # <<>>
       THEN [ok |-> FALSE, ordered |-> <<>>, cycles |-> st.cycles]
       ELSE [ok |-> TRUE, ordered |-> Reverse(st.result), cycles |-> <<>>]

\* workloads.get(svc, {}) ... resources.get("cpu", 0.0), lines 97-100
deployment_resources(wls, svc) ==
    IF svc \in Keys(wls) THEN Get(wls, svc).resources ELSE NoResources

\* for svc in order: ... (lines 96-146), from position i of the order on.
RECURSIVE deployment_admission_loop(_, _, _, _, _, _)
deployment_admission_loop(wls, cap, order, i, used, timeline) ==
    IF i > Len(order)
    THEN [success |-> TRUE, issues |-> <<>>, plan_order |-> order, timeline |-> timeline]
    ELSE LET svc == order[i]
             res == deployment_resources(wls, svc)
             tl1 == Append(timeline, starting_event(svc, res, used))
         IN IF overcommit(used, res, cap)
            THEN [success |-> FALSE,
                  issues |-> <<[type |-> "resource_overcommit", service |-> svc]>>,
                  plan_order |-> order,
                  timeline |-> Append(tl1, failed_event(svc, res))]
            ELSE LET used1 == [cpu |-> used.cpu + res.cpu,
                               memory |-> used.memory + res.memory]
                 IN deployment_admission_loop(wls, cap, order, i + 1, used1,
                                              Append(tl1, started_event(svc, res, used1)))

\* simulate_deployment, lines 58-153
deployment_simulate_deployment(wls, cap) ==
    LET t == deployment_topo_sort(wls)
    IN IF ~t.ok
       THEN [success |-> FALSE,
             issues |-> <<[type |-> "circular_dependency", cycles |-> t.cycles]>>,
             plan_order |-> <<>>,
             timeline |-> <<>>]
       ELSE deployment_admission_loop(wls, cap, t.ordered, 1, [cpu |-> 0, memory |-> 0],
                                      <<>>)

CallDeploymentTopoSort ==
    /\ pc = "start"
    /\ pc' = "deployment_topo_sort"
    /\ result' = deployment_topo_sort(workloads)
    /\ UNCHANGED <<args, history, now, previous>>

CallDeploymentSimulate ==
    /\ pc = "start"
    /\ pc' = "deployment_simulate_deployment"
    /\ result' = deployment_simulate_deployment(workloads, capacity)
    /\ UNCHANGED <<args, history, now, previous>>

\* Calls of either simulator on the same map.
NextDeploymentSim == CallDeploymentTopoSort \/ CallDeploymentSimulate \/ CallSimulate

SpecDeploymentSim == InitSim /\ [][NextDeploymentSim]_vars

\* d is a workload key listed in the depends_on of the workload of key w.
ListedDependency(wls, w, d) ==
    /\ w \in Keys(wls)
    /\ d \in Keys(wls)
    /\ d \in Range(Get(wls, w).depends_on)

Places(s, x) == {i \in 1..Len(s) : s[i] = x}

\* C27: when topo_sort of app/deployment finds no cycle, every dependency
\* comes before its dependents in the order it returns, and the timeline
\* of its simulate_deployment holds a workload's starting event only after
\* the started events of all the workloads it depends on.
C27_DeploymentDependenciesFirst ==
    /\ (pc = "deployment_topo_sort" /\ result.ok) =>
           \A w, d \in Keys(workloads) :
               ListedDependency(workloads, w, d) =>
                   \A i \in Places(result.ordered, w) :
                       \E j \in Places(result.ordered, d) : j < i
    /\ (pc = "deployment_simulate_deployment"
        /\ IssuesOfType(result.issues, "circular_dependency") = {}) =>
           \A i \in 1..Len(result.timeline) :
               result.timeline[i].event = "starting" =>
                   \A d \in Keys(workloads) :
                       ListedDependency(workloads, result.timeline[i].service, d) =>
                           \E j \in 1..(i - 1) :
                               /\ result.timeline[j].event = "started"
                               /\ result.timeline[j].service = d

\* C29: whenever no cycle is found, the plan_order of either simulator
\* holds every workload key exactly once and no other name, and a name
\* that is no workload key gets no event in the timeline.
C29_PlanOrderIsTheKeys ==
    (pc \in {"simulate_deployment", "deployment_simulate_deployment"}
     /\ IssuesOfType(result.issues, "circular_dependency") = {}) =>
        /\ \A k \in Keys(workloads) : Cardinality(Places(result.plan_order, k)) = 1
        /\ Range(result.plan_order) \subseteq Keys(workloads)
        /\ \A i \in 1..Len(result.timeline) :
               result.timeline[i].service \in Keys(workloads)

---------------------------------------------------------------------------
(* ValidatorService.apply_config of app/simulation and of app/deployment,  *)
(* and the command line of app/simulation.  A config is kept as the        *)
(* sequence of its items; history is the .ankaios_history directory.       *)

\* The document None, what yaml.safe_load makes of an empty file.
NoneConfig == << <<"null">> >>

DictConfig(wls) == << <<"workloads", wls>> >>

\* config.get("workloads", {}) if isinstance(config, dict) else {}
config_workloads(config) ==
    IF config = NoneConfig \/ config = <<>> THEN <<>> ELSE config[1][2]

\* The configs applied: None, {}, one workload, two workloads in a chain
\* whose demand exceeds the smaller capacities, a workload that depends on
\* itself.
ApplyConfigs ==
    { NoneConfig,
      <<>>,
      DictConfig(BuildWorkloads(1, <<>>, <<[cpu |-> 1, memory |-> 1]>>)),
      DictConfig(BuildWorkloads(2, <<[w |-> 2, field |-> "depends_on", to |-> "a"]>>,
                                <<[cpu |-> 2, memory |-> 0], [cpu |-> 2, memory |-> 0]>>)),
      DictConfig(BuildWorkloads(1, <<[w |-> 1, field |-> "depends_on", to |-> "a"]>>,
                                <<[cpu |-> 0, memory |-> 0]>>)) }

\* The cluster_capacity arguments: one the chain exceeds, and None.
ApplyCapacities == {[cpu |-> 3, memory |-> 1], DefaultCapacity}

\* Largest time of an apply_config call.
MaxApplyNow == 1

\* run_pre_checks of app/simulation.  A validator that could not be
\* imported is skipped; the validators that are there raise on a document
\* that is no mapping, which counts as a failure, and give their verdict
\* on the others.
run_pre_checks(config, validators, verdict) ==
    [ok |-> IF ~validators THEN TRUE
            ELSE IF config = NoneConfig THEN FALSE
            ELSE verdict]

\* run_pre_checks of app/deployment calls validate(config) and
\* detect(config), which the validator classes do not have: with the
\* validators there every check ends in an AttributeError.
deployment_run_pre_checks(config, validators) == [ok |-> ~validators]

Report(pre, simulation, snapshot_path, rollback) ==
    [pre_check |-> pre, simulation |-> simulation, snapshot_path |-> snapshot_path,
     rollback |-> rollback]

\* restored is not None
is_not_None(restored) == ~restored.is_none /\ restored.value # NoneConfig

\* apply_config of app/simulation, lines 128-140, after the simulation.
apply_simulated(files, config, pre, sim, t) ==
    IF sim.success
    THEN [history |-> save_snapshot(files, config, <<"None", 0>>, t).history,
          report |-> Report(pre, Some(sim),
                            save_snapshot(files, config, <<"None", 0>>, t).path, None)]
    ELSE [history |-> files,
          report |-> Report(pre, Some(sim), NoFile.name,
                            IF rollback_to_latest(files).raised
                            THEN Some([restored |-> FALSE])
                            ELSE Some([restored |->
                                           is_not_None(rollback_to_latest(files).value)]))]

\* apply_config of app/simulation, lines 119-140
apply_config(files, config, cap, pre, t) ==
    IF ~pre.ok
    THEN [history |-> files, report |-> Report(pre, None, NoFile.name, None)]
    ELSE apply_simulated(files, config, pre,
                         simulate_deployment(config_workloads(config), cap), t)

\* save_snapshot of app/deployment/rollback_manager.py: the document is
\* the whole file, written under the name of its time.
deployment_save_snapshot(files, cfg, t) ==
    _atomic_write_json(files, SnapshotFile(DefaultName(t), NoFile.content._meta, cfg))

\* rollback_to_latest of app/deployment/rollback_manager.py returns the
\* loaded document.
deployment_rollback_to_latest(files) ==
    IF latest_snapshot(files) = NoFile THEN None
    ELSE Some(latest_snapshot(files).content.config)

\* apply_config of app/deployment, lines 114-126, after the simulation.
deployment_apply_simulated(files, config, pre, sim, t) ==
    IF sim.success
    THEN [history |-> deployment_save_snapshot(files, config, t),
          report |-> Report(pre, Some(sim), DefaultName(t), None)]
    ELSE [history |-> files,
          report |-> Report(pre, Some(sim), NoFile.name,
                            Some([restored |->
                                      is_not_None(deployment_rollback_to_latest(files))]))]

\* apply_config of app/deployment, lines 96-126
deployment_apply_config(files, config, cap, pre, t) ==
    IF ~pre.ok
    THEN [history |-> files, report |-> Report(pre, None, NoFile.name, None)]
    ELSE deployment_apply_simulated(
             files, config, pre,
             deployment_simulate_deployment(config_workloads(config), cap), t)

\* main() of app/simulation/cli.py: the report of apply_config and the
\* exit status; --apply only chooses the message of lines 41-44.
main(applied, apply) ==
    [report |-> applied.report,
     exit |-> IF ~applied.report.pre_check.ok THEN 2
              ELSE IF applied.report.simulation.value.success THEN 0
              ELSE IF applied.report.rollback.value.restored THEN 4
              ELSE 5,
     message |-> IF ~applied.report.pre_check.ok THEN "Pre-checks failed."
                 ELSE IF ~applied.report.simulation.value.success
                 THEN "Simulation failed; attempting rollback..."
                 ELSE IF apply THEN "Simulation successful; snapshot path:"
                 ELSE "Simulation successful (dry-run). Use --apply to persist snapshot."]

InitApply ==
    /\ workloads = <<>>
    /\ capacity = DefaultCapacity
    /\ config_yaml = Text(Document(<<>>), FALSE)
    /\ current_workloads = <<>>
    /\ auto_heal = TRUE
    /\ all_errors = <<>>
    /\ history = <<>>
    /\ now = 0
    /\ previous = [ok |-> FALSE]
    /\ pc = "start"
    /\ result = [ok |-> FALSE]

\* The arguments of a call, at the time of the call before or later.
ApplyArguments(config, cap, t, validators, apply) ==
    /\ now' = t
    /\ workloads' = config_workloads(config)
    /\ capacity' = cap
    /\ previous' = [config |-> config, history |-> history, validators |-> validators,
                    apply |-> apply]
    /\ UNCHANGED <<config_yaml, current_workloads, auto_heal, all_errors>>

CallApplyConfig ==
    /\ pc \in {"start", "apply_config", "main"}
    /\ pc' = "apply_config"
    /\ \E config \in ApplyConfigs, cap \in ApplyCapacities,
          t \in now..MaxApplyNow, validators \in BOOLEAN, verdict \in BOOLEAN :
           /\ ApplyArguments(config, cap, t, validators, FALSE)
           /\ \E applied \in {apply_config(history, config, cap,
                                           run_pre_checks(config, validators, verdict), t)} :
                  /\ history' = applied.history
                  /\ result' = applied.report

CallMain ==
    /\ pc \in {"start", "apply_config", "main"}
    /\ pc' = "main"
    /\ \E config \in ApplyConfigs, cap \in ApplyCapacities,
          t \in now..MaxApplyNow, validators \in BOOLEAN, verdict \in BOOLEAN,
          apply \in BOOLEAN :
           /\ ApplyArguments(config, cap, t, validators, apply)
           /\ \E applied \in {apply_config(history, config, cap,
                                           run_pre_checks(config, validators, verdict), t)} :
                  /\ history' = applied.history
                  /\ result' = main(applied, apply)

CallDeploymentApplyConfig ==
    /\ pc \in {"start", "deployment_apply_config"}
    /\ pc' = "deployment_apply_config"
    /\ \E config \in ApplyConfigs, cap \in ApplyCapacities,
          t \in now..MaxApplyNow, validators \in BOOLEAN :
           /\ ApplyArguments(config, cap, t, validators, FALSE)
           /\ \E applied \in {deployment_apply_config(
                                  history, config, cap,
                                  deployment_run_pre_checks(config, validators), t)} :
                  /\ history' = applied.history
                  /\ result' = applied.report

NextApply == CallApplyConfig \/ CallMain \/ CallDeploymentApplyConfig

SpecApply == InitApply /\ [][NextApply]_vars

\* The report of the call before.
LastReport == IF pc = "main" THEN result.report ELSE result

\* The call before saved the config it was given as the newest snapshot.
SavedSnapshot ==
    /\ LastReport.snapshot_path # NoFile.name
    /\ history # <<>>
    /\ latest_snapshot(history).name = LastReport.snapshot_path
    /\ json_dumps_sorted(latest_snapshot(history).content.config)
           = json_dumps_sorted(previous.config)

\* C23: apply_config runs the pre-checks, then the simulation, then saves
\* a snapshot or rolls back.  When the pre-checks fail there is no
\* simulation, no snapshot and no rollback.  Otherwise a snapshot of the
\* config is saved exactly when the simulation succeeds and a rollback is
\* attempted exactly when it fails, with rollback.restored true exactly
\* when the directory held a snapshot; the directory changes only for a
\* config that passed the pre-checks and the simulation.
C23_ApplyConfigFlow ==
    pc \in {"apply_config", "deployment_apply_config", "main"} =>
        /\ ~LastReport.pre_check.ok =>
               /\ LastReport.simulation = None
               /\ LastReport.snapshot_path = NoFile.name
               /\ LastReport.rollback = None
               /\ history = previous.history
        /\ LastReport.pre_check.ok =>
               /\ LastReport.simulation # None
               /\ LastReport.simulation.value.success <=> SavedSnapshot
               /\ ~LastReport.simulation.value.success <=> LastReport.rollback # None
               /\ ~LastReport.simulation.value.success =>
                      /\ history = previous.history
                      /\ LastReport.rollback.value.restored <=> previous.history # <<>>

\* C26: a run of the simulation command line without --apply is a dry
\* run: it leaves the snapshot directory as it was, and only a run with
\* --apply writes a snapshot.
C26_DryRunWritesNothing ==
    (pc = "main" /\ ~previous.apply) => history = previous.history

---------------------------------------------------------------------------
\* The outcome of the validate, heal and re-validate steps for the call of
\* validate_and_heal_config.
StepsOfHealConfig ==
    validate_and_heal(config_yaml, TRUE,
                      [i \in 1..Len(current_workloads) |->
                          [name |-> current_workloads[i].name,
                           runtimeConfig |-> NoRuntimeConfig]])

---------------------------------------------------------------------------
\* The errors validate_and_heal handed to auto_fix.
ErrorsHealed == _extract_errors_from_report(result.value.validation_report)

\* The error of place j asks for the renaming of a workload.
RenameIssue(j) ==
    /\ issue_get(ErrorsHealed[j], "type", "") = "NAMING_ERROR"
    /\ issue_get(ErrorsHealed[j], "msg", "") = "contains_spaces"

\* C30: the naming fix of auto_fix only re-keys the workload: the healed
\* document has as many workloads as before, the renamed workload keeps
\* its fields, no other entry is overwritten or removed, and the other
\* issues of the same workload in the issue list are fixed in the same
\* pass.
C30_RenameOnlyRekeys ==
    (pc = "validate_and_heal" /\ auto_heal /\ ~result.raised) =>
        \A j \in 1..Len(ErrorsHealed) :
            RenameIssue(j) =>
                LET w == ErrorsHealed[j].workload
                    before == EntryOf(config_yaml, w)
                    healed == result.value.config
                IN /\ Len(healed.root.entries) = Len(DocEntries)
                   /\ w \notin EntryNames(healed.root.entries)
                   /\ new_name_of(w) \in EntryNames(healed.root.entries)
                   /\ DocNames \ {w} \subseteq EntryNames(healed.root.entries)
                   /\ EntryOf(healed, new_name_of(w)).runtimeConfig = before.runtimeConfig
                   /\ EntryOf(healed, new_name_of(w)).deps = before.deps
                   /\ EntryOf(healed, new_name_of(w)).runtime
                          = (IF before.runtime \in VALID_RUNTIMES THEN before.runtime
                             ELSE "podman")
                   /\ EntryOf(healed, new_name_of(w)).agent
                          = (IF before.agent = "absent" THEN "agent_A" ELSE before.agent)

=============================================================================
